---- MODULE Spec2Model ----
(***************************************************************************)
(* Model of the response cache of the Unity MCP server                     *)
(* (UnityMcpServer/src/cache_manager.py, class ResponseCache) and of its   *)
(* connection to the Unity Editor (UnityMcpServer/src/unity_connection.py, *)
(* class UnityConnection and get_unity_connection), with the tool          *)
(* fetch_cached_response (tools/fetch_cached_response.py), the bridge      *)
(* send_command_to_unity (core/unity_bridge.py), the registry of named     *)
(* caches (get_cache) and the tools trigger_domain_reload and manage_scene *)
(* (tools/trigger_domain_reload.py, tools/manage_scene.py).                *)
(*                                                                         *)
(* The operations of one caller are atomic actions.  Callers running at    *)
(* the same time are threads that each execute add, get or get_cache one   *)
(* statement at a time; an augmented assignment is a load followed by a    *)
(* store.                                                                  *)
(*                                                                         *)
(* Time is counted in minutes (the unit of expiration_minutes).  Every     *)
(* call of datetime.now() is a reading of the clock variable now.  The     *)
(* clock never goes back and two readings may be equal.  It may advance    *)
(* between two operations (Tick) and once inside an operation, between two *)
(* of its readings; the readings of consecutive statements (created_at and *)
(* expires_at in add, the expiry check and last_accessed in get) are one   *)
(* reading.                                                                *)
(*                                                                         *)
(* JSON values are records with a kind: a string is [kind, tag, len, uuid] *)
(* (len characters, all ASCII), a list is [kind, items], a dict is         *)
(* [kind, keys, vals] with its keys in insertion order.  A serialized      *)
(* document is the sequence of its tokens, each with its width in bytes.   *)
(* Python's None is the record NoneVal; payloads are non-null documents.   *)
(* An exception is the record of its class and its message: the code       *)
(* defines no exception class of its own and tells its errors apart by     *)
(* their messages.                                                         *)
(***************************************************************************)
EXTENDS Integers, Sequences, FiniteSets, TLC

VARIABLES
    cache,              \* ResponseCache._cache: cache id -> entry
    total,              \* ResponseCache._total_size_bytes
    max_size_mb,        \* ResponseCache._max_size_mb
    expiration_minutes, \* ResponseCache._expiration_minutes
    now,                \* the wall clock read by datetime.now()
    nextId,             \* the next value uuid.uuid4() returns
    last,               \* the last operation called and what it returned
    walk,               \* a client fetching an entry page after page
    snap,               \* a PageResult a client kept from an earlier get_page
    stream,             \* the bytes the peer sent that recv has not returned yet
    rx,                 \* the call of receive_full_response under way
    sock,               \* UnityConnection.sock of every connection object
    unity_connection,   \* the global _unity_connection
    lastCall,           \* the last connection operation called and its outcome
    threads,            \* the callers of one ResponseCache, each inside a call
    cache_instances,    \* the global _cache_instances: name -> instance
    callers,            \* the callers of get_cache, each inside a call
    unclosed,           \* the sockets created and not closed (followed in SpecWire)
    reload              \* the call of trigger_domain_reload under way

cacheVars == <<cache, total, max_size_mb, expiration_minutes, now, nextId, last, walk, snap>>
connVars == <<stream, rx, sock, unity_connection, lastCall>>
callVars == <<threads, cache_instances, callers>>
toolVars == <<unclosed, reload>>
vars == <<cacheVars, connVars, callVars, toolVars>>

----------------------------------------------------------------------------
(* Bounds of the model *)

MaxIds == 2         \* number of add calls (uuid4 values drawn)
MaxTime == 1        \* last clock value
MaxAccess == 1      \* reads counted per entry (access_count)
MaxItems == 3       \* items of the lists fetched page after page
MaxElapsed == 4     \* ticks one receive_full_response call is followed for
MaxConns == 2       \* UnityConnection objects handed out
MaxStored == 1      \* payloads send_command stores
MaxThreads == 2     \* callers inside a call at the same time

BytesPerMb == 1048576
FilterCacheThreshold == 102400
UuidLen == 36

Ids == 1..MaxIds
NoTime == 0 - 1   \* the key 'last_accessed' is missing
NoInt == 0 - 1    \* None where the code holds a number

Min(a, b) == IF a < b THEN a ELSE b
Max(a, b) == IF a > b THEN a ELSE b

----------------------------------------------------------------------------
(* JSON values *)

NoneVal == [kind |-> "none"]
Str(tag, len) == [kind |-> "str", tag |-> tag, len |-> len, uuid |-> FALSE]
UuidStr(id) == [kind |-> "str", tag |-> id, len |-> UuidLen, uuid |-> TRUE]
List(items) == [kind |-> "list", items |-> items]
Text(s) == [kind |-> "text", s |-> s]
Dict(keys, vals) == [kind |-> "dict", keys |-> keys, vals |-> vals]
EmptyDict == Dict(<<>>, <<>>)

IsList(v) == v.kind = "list"
IsDict(v) == v.kind = "dict"

\* bool(v) of Python: None, "", [] and {} are falsy
Truthy(v) ==
    CASE v.kind = "none" -> FALSE
      [] v.kind = "str" -> v.len > 0
      [] v.kind = "list" -> Len(v.items) > 0
      [] v.kind = "dict" -> Len(v.keys) > 0
      [] OTHER -> TRUE

Tok(c, n) == [c |-> c, n |-> n]

RECURSIVE DumpItems(_)
DumpItems(items) ==
    IF Len(items) = 0 THEN <<>>
    ELSE IF Len(items) = 1 THEN <<Tok(items[1], items[1].len + 2)>>
    ELSE <<Tok(items[1], items[1].len + 2), Tok(", ", 2)>> \o DumpItems(Tail(items))

RECURSIVE Dumps(_)

RECURSIVE DumpMembers(_, _)
\* the members of a dict: "key": value, separated by ", "
DumpMembers(keys, vals) ==
    IF Len(keys) = 0 THEN <<>>
    ELSE <<Tok(keys[1], Len(keys[1]) + 4)>> \o Dumps(vals[1])
         \o (IF Len(keys) = 1 THEN <<>>
             ELSE <<Tok(", ", 2)>> \o DumpMembers(Tail(keys), Tail(vals)))

\* json.dumps(v) with the default separators
Dumps(v) ==
    CASE v.kind = "str" -> <<Tok(v, v.len + 2)>>
      [] v.kind = "text" -> <<Tok(v, Len(v.s) + 2)>>
      [] v.kind = "list" -> <<Tok("[", 1)>> \o DumpItems(v.items) \o <<Tok("]", 1)>>
      [] v.kind = "dict" -> <<Tok("{", 1)>> \o DumpMembers(v.keys, v.vals) \o <<Tok("}", 1)>>
      [] OTHER -> <<Tok("null", 4)>>

RECURSIVE Utf8Len(_)
\* len(s.encode('utf-8'))
Utf8Len(js) == IF Len(js) = 0 THEN 0 ELSE Head(js).n + Utf8Len(Tail(js))

----------------------------------------------------------------------------
(* Inputs *)

\* the page numbers asked of get_page
Pages == {1, 2}

\* page numbers below the first page ("page: int", never validated)
LowPages == {0 - 2, 0 - 1, 0}

\* strings of 200000 characters, and one longer than the 1 MB ceiling
BigA == Str(1, 200000)
BigB == Str(2, 200000)
BigC == Str(3, 200000)
HugeA == Str(4, 1100000)

EmptyList == List(<<>>)
BigList == List(<<BigA, BigB, BigC>>)
HugeList == List(<<HugeA>>)

\* the documents passed to add
Payloads == {EmptyList, BigList, HugeList}

EmptyMeta == [tool |-> "", source_cache_id |-> 0, jq_filter |-> "", filtered_from |-> ""]
ToolMeta == [tool |-> "manage_scene", source_cache_id |-> 0, jq_filter |-> "", filtered_from |-> ""]

\* The metadata passed to add with a document: send_command names the tool
\* for the large responses it stores; a direct caller passes none.
MetaFor(data) == IF data = EmptyList THEN NoneVal ELSE ToolMeta

\* an entry stored without the metadata it was given
MetaOrEmpty_Dropped(m) == EmptyMeta

\* "metadata or {}"
MetaOrEmpty(m) == IF m = NoneVal THEN EmptyMeta ELSE m

\* The clock readings of an operation that reads the clock n times: the
\* first is now, and the clock advances at most once during the operation.
Readings(n) ==
    { [i \in 1..n |-> IF i <= k THEN now ELSE Min(now + 1, MaxTime)] : k \in 1..n }

----------------------------------------------------------------------------
(* ResponseCache: the private helpers work on st = [cache, total] *)

\* _remove_entry that forgets the counter
RemoveEntry_KeepTotal(st, id) ==
    IF id \in DOMAIN st.cache
    THEN [cache |-> [k \in DOMAIN st.cache \ {id} |-> st.cache[k]],
          total |-> st.total]
    ELSE st

RemoveEntry(st, id) ==
    IF id \in DOMAIN st.cache
    THEN [cache |-> [k \in DOMAIN st.cache \ {id} |-> st.cache[k]],
          total |-> st.total - st.cache[id].size_bytes]
    ELSE st

RECURSIVE RemoveAll(_, _)
RemoveAll(st, ids) ==
    IF ids = {} THEN st
    ELSE LET id == CHOOSE k \in ids : \A j \in ids : k <= j
         IN RemoveAll(RemoveEntry(st, id), ids \ {id})

CleanupExpired(st, t) ==
    RemoveAll(st, {id \in DOMAIN st.cache : t > st.cache[id].expires_at})

\* entry.get('last_accessed', entry['created_at'])
Recency(e) == IF e.last_accessed = NoTime THEN e.created_at ELSE e.last_accessed

\* the choice of the most recently used entry
OldestId_Newest(c) ==
    CHOOSE k \in DOMAIN c :
        /\ \A j \in DOMAIN c : Recency(c[k]) >= Recency(c[j])
        /\ \A j \in DOMAIN c : Recency(c[j]) = Recency(c[k]) => k <= j

\* min(keys, key=recency): the first minimal key in insertion order
OldestId(c) ==
    CHOOSE k \in DOMAIN c :
        /\ \A j \in DOMAIN c : Recency(c[k]) <= Recency(c[j])
        /\ \A j \in DOMAIN c : Recency(c[j]) = Recency(c[k]) => k <= j

RECURSIVE EnsureSizeLimit(_, _, _)
EnsureSizeLimit(st, new_size, max_mb) ==
    IF st.total + new_size > max_mb * BytesPerMb /\ DOMAIN st.cache # {}
    THEN EnsureSizeLimit(RemoveEntry(st, OldestId(st.cache)), new_size, max_mb)
    ELSE st

\* ResponseCache.add; r = <<reading of _cleanup_expired, of created_at and expires_at>>
AddEntry(st, cache_id, data, metadata, r, max_mb, exp_min) ==
    LET json_str == Dumps(data)
        data_size == Utf8Len(json_str)
        s1 == CleanupExpired(st, r[1])
        s2 == EnsureSizeLimit(s1, data_size, max_mb)
        entry == [data |-> data,
                  json_str |-> json_str,
                  size_bytes |-> data_size,
                  created_at |-> r[2],
                  expires_at |-> r[2] + exp_min,
                  metadata |-> MetaOrEmpty(metadata),
                  access_count |-> 0,
                  last_accessed |-> NoTime]
    IN [cache |-> [k \in DOMAIN s2.cache \cup {cache_id} |->
                      IF k = cache_id THEN entry ELSE s2.cache[k]],
        total |-> s2.total + data_size]

\* get that reports an expired entry absent but leaves it in the cache
GetResult_NoPurge(st, cache_id, t) ==
    IF cache_id \notin DOMAIN st.cache THEN [st |-> st, res |-> NoneVal]
    ELSE IF t > st.cache[cache_id].expires_at
    THEN [st |-> st, res |-> NoneVal]
    ELSE [st |-> [st EXCEPT !.cache[cache_id].access_count = @ + 1,
                            !.cache[cache_id].last_accessed = t],
          res |-> st.cache[cache_id].data]

\* get that takes now >= expires_at for expired
GetResult_ExpiredAtEqual(st, cache_id, t) ==
    IF cache_id \notin DOMAIN st.cache THEN [st |-> st, res |-> NoneVal]
    ELSE IF t >= st.cache[cache_id].expires_at
    THEN [st |-> RemoveEntry(st, cache_id), res |-> NoneVal]
    ELSE [st |-> [st EXCEPT !.cache[cache_id].access_count = @ + 1,
                            !.cache[cache_id].last_accessed = t],
          res |-> st.cache[cache_id].data]

\* ResponseCache.get; t = reading of the expiry check and of last_accessed
GetResult(st, cache_id, t) ==
    IF cache_id \notin DOMAIN st.cache THEN [st |-> st, res |-> NoneVal]
    ELSE IF t > st.cache[cache_id].expires_at
    THEN [st |-> RemoveEntry(st, cache_id), res |-> NoneVal]
    ELSE [st |-> [st EXCEPT !.cache[cache_id].access_count = @ + 1,
                            !.cache[cache_id].last_accessed = t],
          res |-> st.cache[cache_id].data]

\* get_json_string that removes the entry it returns the text of
GetJsonStringResult_Consume(st, cache_id, t) ==
    IF cache_id \notin DOMAIN st.cache THEN [st |-> st, res |-> NoneVal]
    ELSE [st |-> RemoveEntry(st, cache_id),
          res |-> IF t > st.cache[cache_id].expires_at THEN NoneVal
                  ELSE [kind |-> "json", text |-> st.cache[cache_id].json_str]]

\* ResponseCache.get_json_string; t = reading of the expiry check
GetJsonStringResult(st, cache_id, t) ==
    IF cache_id \notin DOMAIN st.cache THEN [st |-> st, res |-> NoneVal]
    ELSE IF t > st.cache[cache_id].expires_at
    THEN [st |-> RemoveEntry(st, cache_id), res |-> NoneVal]
    ELSE [st |-> st, res |-> [kind |-> "json", text |-> st.cache[cache_id].json_str]]

\* max(1, int(page_size_bytes / (total_bytes / total_items)))
ItemsPerPage(page_size_bytes, total_bytes, total_items) ==
    IF page_size_bytes <= 0 THEN 1
    ELSE Max(1, (page_size_bytes * total_items) \div total_bytes)

\* the position in a list of n items that a slice bound i stands for: a
\* negative bound counts from the end, and every bound is clamped to 0..n
SliceBound(i, n) == IF i < 0 THEN Max(0, n + i) ELSE Min(i, n)

\* data[start_idx:end_idx]
Slice(items, start_idx, end_idx) ==
    LET lo == SliceBound(start_idx, Len(items))
        hi == SliceBound(end_idx, Len(items))
    IN IF lo < hi THEN SubSeq(items, lo + 1, hi) ELSE <<>>

\* the index of the first list-valued field of a dict, 0 when it has none
\* ("array_fields[0]", the fields taken in insertion order)
FirstArrayField(d) ==
    IF \A i \in 1..Len(d.keys) : ~IsList(d.vals[i]) THEN 0
    ELSE CHOOSE i \in 1..Len(d.keys) :
            /\ IsList(d.vals[i])
            /\ \A j \in 1..(i - 1) : ~IsList(d.vals[j])

\* a sequence without its f-th element
Without(seq, f) == [i \in 1..(Len(seq) - 1) |-> IF i < f THEN seq[i] ELSE seq[i + 1]]

\* the '_pagination' value of a page of a dict
Pagination(field, start_idx, end_idx) ==
    [kind |-> "pagination", field |-> field,
     start_index |-> start_idx, end_index |-> end_idx]

\* "{k: v for k, v in data.items() if k != field_name}" with field_name set
\* again to the page's items, and '_pagination' when the page is in range
DictPage(d, f, items, marked, start_idx, end_idx) ==
    Dict(Without(d.keys, f) \o <<d.keys[f]>>
            \o (IF marked THEN <<"_pagination">> ELSE <<>>),
         Without(d.vals, f) \o <<List(items)>>
            \o (IF marked THEN <<Pagination(d.keys[f], start_idx, end_idx)>> ELSE <<>>))

NotSuitable == Dict(<<"message">>, <<Text("Data structure not suitable for pagination")>>)

\* the page whose has_next is true on the last page too
PageFlags_NextOnLast(page, total_pages) ==
    [has_next |-> page <= total_pages,
     has_previous |-> page > 1,
     is_complete |-> (total_pages = 1)]

\* has_next, has_previous and is_complete of a PageResult (lines 188-191)
PageFlags(page, total_pages) ==
    [has_next |-> page < total_pages,
     has_previous |-> page > 1,
     is_complete |-> (total_pages = 1)]

\* The body of get_page once json_str and data are at hand (lines 113-192)
PageOf(json_str, data, cache_id, page, page_size_bytes) ==
    LET total_bytes == Utf8Len(json_str)
        f == IF IsDict(data) THEN FirstArrayField(data) ELSE 0
        counted == IsList(data) \/ f # 0
        seq == IF IsList(data) THEN data.items
               ELSE IF f # 0 THEN data.vals[f].items ELSE <<>>
        total_items == IF counted THEN Len(seq) ELSE NoInt
        items_per_page ==
            IF counted /\ total_items > 0
            THEN ItemsPerPage(page_size_bytes, total_bytes, total_items)
            ELSE NoInt
        start_idx == (page - 1) * items_per_page
        end_idx == Min(start_idx + items_per_page, total_items)
        paginated_data ==
            IF counted
            THEN IF total_items > 0
                 THEN IF IsList(data)
                      THEN IF start_idx < total_items
                           THEN List(Slice(seq, start_idx, end_idx))
                           ELSE List(<<>>)
                      ELSE IF start_idx < total_items
                           THEN DictPage(data, f, Slice(seq, start_idx, end_idx),
                                         TRUE, start_idx, end_idx)
                           ELSE DictPage(data, f, <<>>, FALSE, 0, 0)
                 ELSE NoneVal
            ELSE IF IsDict(data)
            THEN IF total_bytes <= page_size_bytes /\ page = 1
                 THEN data ELSE NotSuitable
            ELSE NoneVal
        total_pages ==
            IF total_items # NoInt /\ items_per_page # NoInt
            THEN (total_items + items_per_page - 1) \div items_per_page
            ELSE 1
        flags == PageFlags(page, total_pages)
    IN [kind |-> "page",
        cache_id |-> cache_id,
        page |-> page,
        total_pages |-> total_pages,
        page_size_bytes |-> page_size_bytes,
        total_bytes |-> total_bytes,
        total_items |-> total_items,
        items_per_page |-> items_per_page,
        has_next |-> flags.has_next,
        has_previous |-> flags.has_previous,
        data |-> paginated_data,
        is_complete |-> flags.is_complete]

\* get_page that cuts the page out of the stored list instead of copying it
GetPageResult_Destructive(st, cache_id, page, page_size_bytes, r) ==
    LET j == GetJsonStringResult(st, cache_id, r[1])
        g == GetResult(j.st, cache_id, r[2])
        pg == PageOf(j.res.text, g.res, cache_id, page, page_size_bytes)
    IN IF j.res = NoneVal THEN [st |-> j.st, res |-> NoneVal]
       ELSE IF ~Truthy(g.res) THEN [st |-> g.st, res |-> NoneVal]
       ELSE [st |-> IF pg.data = NoneVal THEN g.st
                    ELSE [g.st EXCEPT !.cache[cache_id].data = pg.data],
             res |-> pg]

\* ResponseCache.get_page; r = <<reading of get_json_string, reading of get>>
GetPageResult(st, cache_id, page, page_size_bytes, r) ==
    LET j == GetJsonStringResult(st, cache_id, r[1])
        g == GetResult(j.st, cache_id, r[2])
    IN IF j.res = NoneVal THEN [st |-> j.st, res |-> NoneVal]
       ELSE IF ~Truthy(g.res) THEN [st |-> g.st, res |-> NoneVal]
       ELSE [st |-> g.st,
             res |-> PageOf(j.res.text, g.res, cache_id, page, page_size_bytes)]

\* The last clock reading get_page compared with expires_at
PageCheckTime(st, cache_id, r) ==
    IF cache_id \in DOMAIN st.cache /\ r[1] <= st.cache[cache_id].expires_at
    THEN r[2] ELSE r[1]

\* jq.compile(jq_filter).input(data).all(): the results of the program, or
\* the error the jq binding raises (at compile time or while evaluating)
JqAll(jq_filter, data) ==
    CASE jq_filter = "." -> [ok |-> TRUE, results |-> <<data>>]
      [] jq_filter = ".[]" ->
            IF IsList(data) THEN [ok |-> TRUE, results |-> data.items]
            ELSE [ok |-> FALSE, results |-> <<>>]
      [] OTHER -> [ok |-> FALSE, results |-> <<>>]

\* unwrapping that also turns no result into a bare value
Unwrap_AtMostOne(results) ==
    IF Len(results) = 1 THEN results[1]
    ELSE IF Len(results) = 0 THEN NoneVal
    ELSE List(results)

\* "if len(filtered_data) == 1: filtered_data = filtered_data[0]"
Unwrap(results) == IF Len(results) = 1 THEN results[1] ELSE List(results)

ValueError(msg) == [kind |-> "error", type |-> "ValueError", msg |-> msg]
NotFoundMsg == "Cache ID not found or expired"
FilterErrorMsg == "JQ filter error"

\* apply_jq_filter that raises a filter fault with the message of a missing id
ApplyJqFilterResult_OneMessage(st, cache_id, jq_filter, cache_result, r, new_id, max_mb, exp_min) ==
    LET g == GetResult(st, cache_id, r[1])
        q == JqAll(jq_filter, g.res)
        filtered_data == Unwrap(q.results)
        filtered_size == Utf8Len(Dumps(filtered_data))
        metadata == [source_cache_id |-> cache_id,
                     jq_filter |-> jq_filter,
                     filtered_from |->
                        IF g.st.cache[cache_id].metadata.tool = "" THEN "unknown"
                        ELSE g.st.cache[cache_id].metadata.tool,
                     tool |-> ""]
    IN IF g.res = NoneVal \/ ~q.ok
       THEN [st |-> g.st, res |-> ValueError(NotFoundMsg), cached |-> FALSE]
       ELSE IF cache_result /\ filtered_size > FilterCacheThreshold
       THEN [st |-> AddEntry(g.st, new_id, filtered_data, metadata,
                             <<r[2], r[3]>>, max_mb, exp_min),
             res |-> UuidStr(new_id), cached |-> TRUE]
       ELSE [st |-> g.st, res |-> filtered_data, cached |-> FALSE]

\* ResponseCache.apply_jq_filter; r = <<the reading of get, the two of add>>,
\* new_id = the uuid4 value add draws when the result is cached
ApplyJqFilterResult(st, cache_id, jq_filter, cache_result, r, new_id, max_mb, exp_min) ==
    LET g == GetResult(st, cache_id, r[1])
        q == JqAll(jq_filter, g.res)
        filtered_data == Unwrap(q.results)
        filtered_size == Utf8Len(Dumps(filtered_data))
        metadata == [source_cache_id |-> cache_id,
                     jq_filter |-> jq_filter,
                     filtered_from |->
                        IF g.st.cache[cache_id].metadata.tool = "" THEN "unknown"
                        ELSE g.st.cache[cache_id].metadata.tool,
                     tool |-> ""]
    IN IF g.res = NoneVal
       THEN [st |-> g.st, res |-> ValueError(NotFoundMsg), cached |-> FALSE]
       ELSE IF ~q.ok
       THEN [st |-> g.st, res |-> ValueError(FilterErrorMsg), cached |-> FALSE]
       ELSE IF cache_result /\ filtered_size > FilterCacheThreshold
       THEN [st |-> AddEntry(g.st, new_id, filtered_data, metadata,
                             <<r[2], r[3]>>, max_mb, exp_min),
             res |-> UuidStr(new_id), cached |-> TRUE]
       ELSE [st |-> g.st, res |-> filtered_data, cached |-> FALSE]

\* ResponseCache.get_info
GetInfoResult(c, cache_id) ==
    IF cache_id \notin DOMAIN c THEN NoneVal
    ELSE [kind |-> "info",
          cache_id |-> cache_id,
          size_bytes |-> c[cache_id].size_bytes,
          created_at |-> c[cache_id].created_at,
          expires_at |-> c[cache_id].expires_at,
          access_count |-> c[cache_id].access_count,
          metadata |-> c[cache_id].metadata]

RECURSIVE NewestFirst(_, _)
\* sorted(items, key=created_at, reverse=True): stable, so entries created at
\* the same reading stay in insertion order
NewestFirst(c, ids) ==
    IF ids = {} THEN <<>>
    ELSE LET first == CHOOSE k \in ids :
                 /\ \A j \in ids : c[k].created_at >= c[j].created_at
                 /\ \A j \in ids : c[j].created_at = c[k].created_at => k <= j
         IN <<GetInfoResult(c, first)>> \o NewestFirst(c, ids \ {first})

\* ResponseCache.list_cached
ListCachedResult(c) == NewestFirst(c, DOMAIN c)

State == [cache |-> cache, total |-> total]

----------------------------------------------------------------------------
(* Operations *)

\* What an observer records of a call: the operation, its cache_id and other
\* arguments, the clock reading t of its expiry check, whether the entry was
\* held and past expires_at at that reading, and the value returned or raised.
Ret(op, id, arg, t, expired, res) ==
    [op |-> op, id |-> id, arg |-> arg, t |-> t, expired |-> expired, res |-> res]

ExpiredAt(c, cache_id, t) == cache_id \in DOMAIN c /\ t > c[cache_id].expires_at
LiveAt(c, cache_id, t) == cache_id \in DOMAIN c /\ ~(t > c[cache_id].expires_at)
NoArg == [page |-> 0, page_size_bytes |-> 0, jq_filter |-> "", cache_result |-> FALSE]

IdleWalk == [status |-> "idle", id |-> 0, page_size_bytes |-> 0, page |-> 0,
             orig |-> NoneVal, acc |-> <<>>, live |-> FALSE]

\* no receive_full_response call under way
NoCall == [pc |-> "idle", data |-> "", elapsed |-> 0, fault |-> "none",
           res |-> NoneVal, sent |-> ""]

\* no connection operation called yet
NoCallYet == [op |-> "none"]

Threads == 1..MaxThreads

\* a caller of the cache that is in no call
Idle == [pc |-> "idle", op |-> "none", id |-> 0, new_id |-> 0, data |-> NoneVal,
         size |-> 0, expires_at |-> 0, pending |-> <<>>, back |-> "",
         loaded |-> 0, res |-> NoneVal]

\* the names passed to get_cache
Names == {"default", "other"}

\* no instance: the name is not in _cache_instances
NoInst == <<>>

\* a caller of get_cache that is in no call
Outside == [pc |-> "idle", name |-> "", inst |-> NoInst, stored |-> FALSE]

\* nobody is inside a call and _cache_instances is empty
NoCallers ==
    /\ threads = [t \in Threads |-> Idle]
    /\ cache_instances = [n \in Names |-> NoInst]
    /\ callers = [t \in Threads |-> Outside]

\* trigger_domain_reload is in no call
NotReloading ==
    [pc |-> "idle", timeout |-> 0, elapsed |-> 0, chunks |-> 0, job_id |-> NoneVal,
     res |-> NoneVal]

\* no socket was created and no tool is inside a call
NoTools ==
    /\ unclosed = 0
    /\ reload = NotReloading

\* no connection object exists and _unity_connection is None
ConnIdle ==
    /\ stream = ""
    /\ rx = NoCall
    /\ sock = <<>>
    /\ unity_connection = 0
    /\ lastCall = NoCallYet

Init ==
    /\ ConnIdle
    /\ NoCallers
    /\ NoTools
    /\ cache = <<>>
    /\ total = 0
    /\ max_size_mb = 1
    /\ expiration_minutes \in {0, 1}
    /\ now = 0
    /\ nextId = 1
    /\ last = Ret("init", 0, NoArg, 0, FALSE, NoneVal)
    /\ walk = IdleWalk
    /\ snap = NoneVal

Tick ==
    /\ now < MaxTime
    /\ now' = now + 1
    /\ last' = Ret("tick", 0, NoArg, now + 1, FALSE, NoneVal)
    /\ UNCHANGED <<cache, total, max_size_mb, expiration_minutes, nextId, walk, snap, connVars, callVars, toolVars>>

Add ==
    \E data \in Payloads, r \in Readings(2) :
        /\ nextId <= MaxIds
        /\ LET s == AddEntry(State, nextId, data, MetaFor(data), r,
                             max_size_mb, expiration_minutes)
           IN /\ cache' = s.cache
              /\ total' = s.total
        /\ nextId' = nextId + 1
        /\ now' = r[2]
        /\ last' = Ret("add", nextId, NoArg, r[2], FALSE, UuidStr(nextId))
        /\ UNCHANGED <<max_size_mb, expiration_minutes, walk, snap, connVars, callVars, toolVars>>

CanRead(cache_id) ==
    cache_id \in DOMAIN cache => cache[cache_id].access_count < MaxAccess

\* get_page's default page_size_bytes
DefaultPageSize == 1024 * 1024

Get ==
    \E cache_id \in Ids :
        /\ CanRead(cache_id)
        /\ LET g == GetResult(State, cache_id, now)
           IN /\ cache' = g.st.cache
              /\ total' = g.st.total
              /\ last' = Ret("get", cache_id, NoArg, now, ExpiredAt(cache, cache_id, now), g.res)
        /\ UNCHANGED <<max_size_mb, expiration_minutes, now, nextId, walk, snap, connVars, callVars, toolVars>>

GetJsonString ==
    \E cache_id \in Ids :
        /\ LET j == GetJsonStringResult(State, cache_id, now)
           IN /\ cache' = j.st.cache
              /\ total' = j.st.total
              /\ last' = Ret("get_json_string", cache_id, NoArg, now,
                             ExpiredAt(cache, cache_id, now), j.res)
        /\ UNCHANGED <<max_size_mb, expiration_minutes, now, nextId, walk, snap, connVars, callVars, toolVars>>

GetPage ==
    \E cache_id \in Ids, page \in Pages, r \in Readings(2) :
        /\ CanRead(cache_id)
        /\ LET p == GetPageResult(State, cache_id, page, DefaultPageSize, r)
               t == PageCheckTime(State, cache_id, r)
           IN /\ cache' = p.st.cache
              /\ total' = p.st.total
              /\ now' = t
              /\ last' = Ret("get_page", cache_id,
                             [NoArg EXCEPT !.page = page,
                                           !.page_size_bytes = DefaultPageSize],
                             t, ExpiredAt(cache, cache_id, t), p.res)
        /\ UNCHANGED <<max_size_mb, expiration_minutes, nextId, walk, snap, connVars, callVars, toolVars>>

\* ".[" does not compile; ".[]" fails on a document that is not a list
Filters == {".", ".[]", ".["}

ApplyJqFilter ==
    \E cache_id \in Ids, jq_filter \in Filters, cache_result \in BOOLEAN, r \in Readings(3) :
        /\ CanRead(cache_id)
        /\ LET f == ApplyJqFilterResult(State, cache_id, jq_filter, cache_result, r,
                                        nextId, max_size_mb, expiration_minutes)
           IN /\ f.cached => nextId <= MaxIds
              /\ cache' = f.st.cache
              /\ total' = f.st.total
              /\ nextId' = IF f.cached THEN nextId + 1 ELSE nextId
              /\ now' = IF f.cached THEN r[3] ELSE now
              /\ last' = Ret("apply_jq_filter", cache_id,
                             [NoArg EXCEPT !.jq_filter = jq_filter,
                                           !.cache_result = cache_result],
                             r[1], ExpiredAt(cache, cache_id, r[1]), f.res)
        /\ UNCHANGED <<max_size_mb, expiration_minutes, walk, snap, connVars, callVars, toolVars>>

GetInfo ==
    \E cache_id \in Ids :
        /\ last' = Ret("get_info", cache_id, NoArg, now, ExpiredAt(cache, cache_id, now),
                   GetInfoResult(cache, cache_id))
        /\ UNCHANGED <<cache, total, max_size_mb, expiration_minutes, now, nextId, walk, snap, connVars, callVars, toolVars>>

ListCached ==
    /\ last' = Ret("list_cached", 0, NoArg, now, FALSE,
                   [kind |-> "infos", items |-> ListCachedResult(cache)])
    /\ UNCHANGED <<cache, total, max_size_mb, expiration_minutes, now, nextId, walk, snap, connVars, callVars, toolVars>>

Next ==
    \/ Tick
    \/ Add
    \/ Get
    \/ GetJsonString
    \/ GetPage
    \/ ApplyJqFilter
    \/ GetInfo
    \/ ListCached

Spec == Init /\ [][Next]_vars

----------------------------------------------------------------------------
(* Fetching one entry page after page: the cache holds one list and clients
   call get_page on it, one of them walking the pages 1..total_pages. *)

SmallList(n) == List([i \in 1..n |-> Str(10 + i, 10)])

\* a dict whose second and third fields are lists, the first of n items
ListedMap(n) ==
    Dict(<<"name", "items", "more">>, <<Text("scene"), SmallList(n), SmallList(1)>>)

\* a dict without a list field
FlatMap == Dict(<<"name">>, <<Text("scene")>>)

\* lists of 0..MaxItems strings of 10 characters (14 bytes with ", "), and
\* dicts: empty, without a list, with an empty list and with a list of
\* MaxItems items
PagePayloads ==
    {SmallList(n) : n \in 0..MaxItems}
        \cup {EmptyDict, FlatMap, ListedMap(0), ListedMap(MaxItems)}

\* one item's worth, two items' worth, more than any of the lists
PageSizes == {14, 28, 1000}

\* get_page calls made on one entry
MaxPageReads == MaxItems + 1

InitPage ==
    /\ ConnIdle
    /\ NoCallers
    /\ NoTools
    /\ \E data \in PagePayloads :
          LET s == AddEntry([cache |-> <<>>, total |-> 0], 1, data, ToolMeta, <<0, 0>>, 1, 1)
          IN /\ cache = s.cache
             /\ total = s.total
    /\ max_size_mb = 1
    /\ expiration_minutes = 1
    /\ now = 0
    /\ nextId = 2
    /\ last = Ret("add", 1, NoArg, 0, FALSE, UuidStr(1))
    /\ walk = IdleWalk
    /\ snap = NoneVal

CanPage(cache_id) ==
    cache_id \in DOMAIN cache => cache[cache_id].access_count < MaxPageReads

\* one get_page call, shared by the clients below
PageStep(cache_id, page, page_size_bytes, r) ==
    LET p == GetPageResult(State, cache_id, page, page_size_bytes, r)
        t == PageCheckTime(State, cache_id, r)
    IN /\ cache' = p.st.cache
       /\ total' = p.st.total
       /\ now' = t
       /\ last' = Ret("get_page", cache_id,
                      [NoArg EXCEPT !.page = page, !.page_size_bytes = page_size_bytes],
                      t, ExpiredAt(cache, cache_id, t), p.res)
       /\ UNCHANGED <<max_size_mb, expiration_minutes, nextId, connVars, callVars, toolVars>>

\* a client calls get_page and may keep the result
PageCall ==
    \E cache_id \in DOMAIN cache, page \in Pages \cup LowPages,
       page_size_bytes \in PageSizes, r \in Readings(2), keep \in BOOLEAN :
        /\ CanPage(cache_id)
        /\ PageStep(cache_id, page, page_size_bytes, r)
        /\ snap' = IF keep /\ last'.res # NoneVal THEN last'.res ELSE snap
        /\ UNCHANGED walk

\* the walking client asks for page 1
WalkStart ==
    \E cache_id \in DOMAIN cache, page_size_bytes \in PageSizes, r \in Readings(2) :
        /\ walk.status = "idle"
        /\ IsList(cache[cache_id].data)
        /\ CanPage(cache_id)
        /\ PageStep(cache_id, 1, page_size_bytes, r)
        /\ walk' = [status |-> IF last'.res = NoneVal THEN "absent"
                               ELSE IF last'.res.has_next THEN "walking" ELSE "done",
                    id |-> cache_id,
                    page_size_bytes |-> page_size_bytes,
                    page |-> 1,
                    orig |-> cache[cache_id].data,
                    acc |-> IF last'.res = NoneVal THEN <<>> ELSE last'.res.data.items,
                    live |-> LiveAt(cache, cache_id, last'.t)]
        /\ UNCHANGED snap

\* the walking client asks for the page after the one it has
WalkNext ==
    \E r \in Readings(2) :
        /\ walk.status = "walking"
        /\ CanPage(walk.id)
        /\ PageStep(walk.id, walk.page + 1, walk.page_size_bytes, r)
        /\ walk' = [walk EXCEPT
                       !.status = IF last'.res = NoneVal THEN "absent"
                                  ELSE IF last'.res.has_next THEN "walking" ELSE "done",
                       !.page = @ + 1,
                       !.acc = IF last'.res = NoneVal THEN @ ELSE @ \o last'.res.data.items,
                       !.live = LiveAt(cache, walk.id, last'.t)]
        /\ UNCHANGED snap

\* another read of the entry between two get_page calls
PageGet ==
    \E cache_id \in DOMAIN cache :
        /\ CanPage(cache_id)
        /\ LET g == GetResult(State, cache_id, now)
           IN /\ cache' = g.st.cache
              /\ total' = g.st.total
              /\ last' = Ret("get", cache_id, NoArg, now, ExpiredAt(cache, cache_id, now), g.res)
        /\ UNCHANGED <<max_size_mb, expiration_minutes, now, nextId, walk, snap, connVars, callVars, toolVars>>

NextPage ==
    \/ Tick
    \/ PageCall
    \/ WalkStart
    \/ WalkNext
    \/ PageGet

SpecPage == InitPage /\ [][NextPage]_vars

----------------------------------------------------------------------------
(* Eviction: documents of which two fit under the 1 MB ceiling and three do
   not are added, and read in between. *)

\* a string of 400000 characters
MedA == Str(7, 400000)
MedList == List(<<MedA>>)

EvictPayloads == {MedList, BigList}

\* add calls made while entries are evicted
MaxEvictAdds == MaxIds + 1

AddSized ==
    \E data \in EvictPayloads, r \in Readings(2) :
        /\ nextId <= MaxEvictAdds
        /\ \E s \in {AddEntry(State, nextId, data, ToolMeta, r,
                               max_size_mb, expiration_minutes)} :
              /\ cache' = s.cache
              /\ total' = s.total
        /\ nextId' = nextId + 1
        /\ now' = r[2]
        /\ last' = Ret("add", nextId, NoArg, r[2], FALSE, UuidStr(nextId))
        /\ UNCHANGED <<max_size_mb, expiration_minutes, walk, snap, connVars, callVars, toolVars>>

NextEvict ==
    \/ Tick
    \/ AddSized
    \/ Get

SpecEvict == Init /\ [][NextEvict]_vars

----------------------------------------------------------------------------
(* One ResponseCache called from several threads.  The class takes no lock,
   so a thread may be suspended between any two statements of add, get and
   _remove_entry, and between the read and the write of an augmented
   assignment to _total_size_bytes.  A thread is the record of its position
   (pc), the call it is in and its local variables.  The statements that
   touch only the entry object or run through the dict in one expression
   (the list of expired ids, min over the keys) are one step each. *)

Finished(th, res) == [th EXCEPT !.pc = "done", !.res = res]
KeyError(th) == [th EXCEPT !.pc = "raised", !.res = [kind |-> "error", type |-> "KeyError", msg |-> ""]]

RECURSIVE Sorted(_)
\* the ids of a set in insertion order
Sorted(ids) ==
    IF ids = {} THEN <<>>
    ELSE LET id == CHOOSE k \in ids : \A j \in ids : k <= j
         IN <<id>> \o Sorted(ids \ {id})

\* "for cache_id in expired_ids: self._remove_entry(cache_id)", then
\* _ensure_size_limit
NextExpired(th) ==
    IF th.pending = <<>> THEN [th EXCEPT !.pc = "ensure"]
    ELSE [th EXCEPT !.pc = "rm_check", !.id = Head(th.pending),
                    !.pending = Tail(th.pending), !.back = "cleanup"]

\* where _remove_entry returns to: get returns None, _cleanup_expired takes
\* the next expired id, _ensure_size_limit tests its condition again
Returned(th) ==
    CASE th.back = "get" -> Finished(th, NoneVal)
      [] th.back = "cleanup" -> NextExpired(th)
      [] OTHER -> [th EXCEPT !.pc = "ensure"]

\* one statement of _remove_entry (lines 288-290): the membership test, the
\* read of the operands of "-=", its write, and the del
RemoveStep(th, st) ==
    CASE th.pc = "rm_check" ->
            [th |-> IF th.id \in DOMAIN st.cache THEN [th EXCEPT !.pc = "rm_load"]
                    ELSE Returned(th),
             st |-> st]
      [] th.pc = "rm_load" ->
            [th |-> IF th.id \in DOMAIN st.cache
                    THEN [th EXCEPT !.pc = "rm_store", !.loaded = st.total,
                                    !.size = st.cache[th.id].size_bytes]
                    ELSE KeyError(th),
             st |-> st]
      [] th.pc = "rm_store" ->
            [th |-> [th EXCEPT !.pc = "rm_del"],
             st |-> [st EXCEPT !.total = th.loaded - th.size]]
      [] OTHER ->
            IF th.id \in DOMAIN st.cache
            THEN [th |-> Returned(th),
                  st |-> [st EXCEPT !.cache = [k \in DOMAIN st.cache \ {th.id} |-> st.cache[k]]]]
            ELSE [th |-> KeyError(th), st |-> st]

\* one statement of get after the membership test (lines 65-76); t = the
\* clock
GetStep(th, st, t) ==
    CASE th.pc = "g_entry" ->
            [th |-> IF th.id \in DOMAIN st.cache
                    THEN [th EXCEPT !.pc = "g_check",
                                    !.expires_at = st.cache[th.id].expires_at,
                                    !.data = st.cache[th.id].data]
                    ELSE KeyError(th),
             st |-> st]
      [] th.pc = "g_check" ->
            [th |-> IF t > th.expires_at
                    THEN [th EXCEPT !.pc = "rm_check", !.back = "get"]
                    ELSE [th EXCEPT !.pc = "g_touch"],
             st |-> st]
      [] OTHER ->
            [th |-> Finished(th, th.data),
             st |-> IF th.id \in DOMAIN st.cache
                    THEN [st EXCEPT !.cache[th.id].access_count = @ + 1,
                                    !.cache[th.id].last_accessed = t]
                    ELSE st]

\* one statement of add after _cleanup_expired (lines 43-58, 276-284)
AddStep(th, st, t, max_mb, exp_min) ==
    CASE th.pc = "ensure" ->
            [th |-> IF st.total + th.size > max_mb * BytesPerMb /\ DOMAIN st.cache # {}
                    THEN [th EXCEPT !.pc = "rm_check", !.id = OldestId(st.cache),
                                    !.back = "ensure"]
                    ELSE [th EXCEPT !.pc = "a_store"],
             st |-> st]
      [] th.pc = "a_store" ->
            [th |-> [th EXCEPT !.pc = "a_load"],
             st |-> [st EXCEPT !.cache =
                        [k \in DOMAIN st.cache \cup {th.new_id} |->
                            IF k = th.new_id
                            THEN [data |-> th.data,
                                  json_str |-> Dumps(th.data),
                                  size_bytes |-> Utf8Len(Dumps(th.data)),
                                  created_at |-> t,
                                  expires_at |-> t + exp_min,
                                  metadata |-> EmptyMeta,
                                  access_count |-> 0,
                                  last_accessed |-> NoTime]
                            ELSE st.cache[k]]]]
      [] th.pc = "a_load" ->
            [th |-> [th EXCEPT !.pc = "a_add", !.loaded = st.total,
                               !.size = Utf8Len(Dumps(th.data))],
             st |-> st]
      [] OTHER ->
            [th |-> Finished(th, UuidStr(th.new_id)),
             st |-> [st EXCEPT !.total = th.loaded + th.size]]

\* the next statement of the thread th
ThreadStep(th, st, t, max_mb, exp_min) ==
    IF th.pc \in {"rm_check", "rm_load", "rm_store", "rm_del"} THEN RemoveStep(th, st)
    ELSE IF th.pc \in {"g_entry", "g_check", "g_touch"} THEN GetStep(th, st, t)
    ELSE AddStep(th, st, t, max_mb, exp_min)

\* the documents the threads add
RacePayloads == {EmptyList, BigList}

\* a thread calls get and tests "cache_id not in self._cache" (lines 62-63)
CallGet ==
    \E t \in Threads, cache_id \in Ids :
        /\ threads[t].pc = "idle"
        /\ CanRead(cache_id)
        /\ threads' = [threads EXCEPT ![t] =
                IF cache_id \in DOMAIN cache
                THEN [Idle EXCEPT !.pc = "g_entry", !.op = "get", !.id = cache_id]
                ELSE Finished([Idle EXCEPT !.op = "get", !.id = cache_id], NoneVal)]
        /\ UNCHANGED <<cacheVars, connVars, toolVars, cache_instances, callers>>

\* a thread calls add and lists the expired ids (lines 35-42, 266-270)
CallAdd ==
    \E t \in Threads, data \in RacePayloads :
        /\ threads[t].pc = "idle"
        /\ nextId <= MaxIds
        /\ threads' = [threads EXCEPT ![t] =
                NextExpired([Idle EXCEPT
                    !.op = "add", !.new_id = nextId, !.data = data,
                    !.size = Utf8Len(Dumps(data)),
                    !.pending = Sorted({id \in DOMAIN cache : now > cache[id].expires_at})])]
        /\ nextId' = nextId + 1
        /\ UNCHANGED <<cache, total, max_size_mb, expiration_minutes, now, last, walk, snap,
                       connVars, toolVars, cache_instances, callers>>

\* a thread inside a call runs its next statement
Advance ==
    \E t \in Threads :
        /\ threads[t].pc \notin {"idle", "done", "raised"}
        /\ \E s \in {ThreadStep(threads[t], State, now, max_size_mb, expiration_minutes)} :
              /\ threads' = [threads EXCEPT ![t] = s.th]
              /\ cache' = s.st.cache
              /\ total' = s.st.total
        /\ UNCHANGED <<max_size_mb, expiration_minutes, now, nextId, last, walk, snap,
                       connVars, toolVars, cache_instances, callers>>

\* the call of a thread has returned or raised; the thread may call again
Leave ==
    \E t \in Threads :
        /\ threads[t].pc \in {"done", "raised"}
        /\ threads' = [threads EXCEPT ![t] = Idle]
        /\ UNCHANGED <<cacheVars, connVars, toolVars, cache_instances, callers>>

NextRace ==
    \/ Tick
    \/ CallGet
    \/ CallAdd
    \/ Advance
    \/ Leave

SpecRace == Init /\ [][NextRace]_vars

----------------------------------------------------------------------------
(* get_cache called from several threads (lines 294-302).  An instance is
   named after the thread that created it and the name it was created for;
   a caller may store an entry in the instance it was given. *)

\* one statement of get_cache: the membership test, the creation and
\* assignment, the return
GetCacheStep(c, reg, t) ==
    CASE c.pc = "test" ->
            [c |-> [c EXCEPT !.pc = IF reg[c.name] = NoInst THEN "create" ELSE "return"],
             reg |-> reg]
      [] c.pc = "create" ->
            [c |-> [c EXCEPT !.pc = "return"],
             reg |-> [reg EXCEPT ![c.name] = <<t, c.name>>]]
      [] OTHER ->
            [c |-> [c EXCEPT !.pc = "done", !.inst = reg[c.name]],
             reg |-> reg]

\* a thread calls get_cache(name)
CallGetCache ==
    \E t \in Threads, name \in Names :
        /\ callers[t].pc = "idle"
        /\ callers' = [callers EXCEPT ![t] = [Outside EXCEPT !.pc = "test", !.name = name]]
        /\ UNCHANGED <<cacheVars, connVars, toolVars, threads, cache_instances>>

\* a thread inside get_cache runs its next statement
AdvanceGetCache ==
    \E t \in Threads :
        /\ callers[t].pc \in {"test", "create", "return"}
        /\ \E s \in {GetCacheStep(callers[t], cache_instances, t)} :
              /\ callers' = [callers EXCEPT ![t] = s.c]
              /\ cache_instances' = s.reg
        /\ UNCHANGED <<cacheVars, connVars, toolVars, threads>>

\* a caller stores an entry in the instance it was given
UseInstance ==
    \E t \in Threads :
        /\ callers[t].pc = "done"
        /\ ~callers[t].stored
        /\ callers' = [callers EXCEPT ![t].stored = TRUE]
        /\ UNCHANGED <<cacheVars, connVars, toolVars, threads, cache_instances>>

\* a caller that stored nothing forgets its instance and may call again
LeaveGetCache ==
    \E t \in Threads :
        /\ callers[t].pc = "done"
        /\ ~callers[t].stored
        /\ callers' = [callers EXCEPT ![t] = Outside]
        /\ UNCHANGED <<cacheVars, connVars, toolVars, threads, cache_instances>>

NextRegistry ==
    \/ CallGetCache
    \/ AdvanceGetCache
    \/ UseInstance
    \/ LeaveGetCache

SpecRegistry == Init /\ [][NextRegistry]_vars

----------------------------------------------------------------------------
(* Properties of the cache *)

RECURSIVE SumSizes(_, _)
SumSizes(c, ids) ==
    IF ids = {} THEN 0
    ELSE LET id == CHOOSE k \in ids : TRUE
         IN c[id].size_bytes + SumSizes(c, ids \ {id})

MaxBytes == max_size_mb * BytesPerMb

ReadOps == {"get", "get_json_string", "get_page", "apply_jq_filter"}

\* what a read operation returns or raises for an id it does not find
Absent(call) ==
    IF call.op = "apply_jq_filter" THEN call.res = ValueError(NotFoundMsg)
    ELSE call.res = NoneVal

\* C1: after every operation _total_size_bytes is the sum of size_bytes over
\* the entries held in _cache.
C1_SizeAccounting == total = SumSizes(cache, DOMAIN cache)

\* an entry was removed (expired or evicted) and another one is still held
C1_Witness ==
    /\ Cardinality(DOMAIN cache) + 1 < nextId
    /\ DOMAIN cache # {}
    /\ total > 0

\* C2: after any add completes, _total_size_bytes is at most the ceiling
\* max_size_mb*1024*1024, or the cache is empty.
C2_CeilingRespect ==
    last.op = "add" => (total <= MaxBytes \/ DOMAIN cache = {})

\* C3: a read (get, get_json_string, get_page, apply_jq_filter) of an entry
\* whose expires_at is before the clock reading of the read reports absent /
\* NotFound, and the entry is no longer in the cache after the read.
C3_ExpiredNeverReturned ==
    (last.op \in ReadOps /\ last.expired) =>
        (Absent(last) /\ last.id \notin DOMAIN cache)

\* get_page met an expired entry
C3_Witness ==
    /\ last.op = "get_page"
    /\ last.expired
    /\ last.res = NoneVal

\* C4: list_cached returns no entry with now > expires_at and leaves no such
\* entry in the cache; get_info reports no such entry.
C4_ListOnlyLive ==
    /\ last.op = "list_cached" =>
          /\ \A i \in 1..Len(last.res.items) : ~(now > last.res.items[i].expires_at)
          /\ \A id \in DOMAIN cache : ~(now > cache[id].expires_at)
    /\ last.op = "get_info" => (last.expired => last.res = NoneVal)

\* C5: with expiration window 0, a get is a miss whatever time has elapsed
\* since the add, none included.
C5_ZeroWindowAlwaysMiss ==
    (expiration_minutes = 0 /\ last.op = "get") => last.res = NoneVal

\* C5 (amended): with expiration window 0, a get of a held entry is a miss
\* exactly when its clock reading is later than the reading add took for
\* expires_at; at an equal reading the get is a hit.
C5_ZeroWindowMissOnceClockAdvanced ==
    [][(expiration_minutes = 0 /\ last'.op = "get" /\ last'.id \in DOMAIN cache) =>
          (last'.res = NoneVal <=> last'.t > cache[last'.id].expires_at)]_vars

\* a get after the clock advanced, on an entry stored with window 0
C5_Witness ==
    /\ expiration_minutes = 0
    /\ last.op = "get"
    /\ last.expired
    /\ last.res = NoneVal

\* the source entry of a filter call is held and not expired at its reading
LiveSource(c, call) == LiveAt(c, call.id, call.t)

\* C8: apply_jq_filter on a live entry, when the value is not stored again,
\* returns the bare value when the filter produces exactly one result and
\* the sequence of the results when it produces none or at least two.
C8_FilterUnwrap ==
    [][(/\ last'.op = "apply_jq_filter"
        /\ LiveSource(cache, last')
        /\ JqAll(last'.arg.jq_filter, cache[last'.id].data).ok
        /\ nextId' = nextId) =>
          LET results == JqAll(last'.arg.jq_filter, cache[last'.id].data).results
          IN /\ Len(results) = 1 => last'.res = results[1]
             /\ Len(results) # 1 => last'.res = List(results)]_vars

\* ".[]" produced the only item of a list and the item came back bare
C8_Witness ==
    /\ last.op = "apply_jq_filter"
    /\ last.arg.jq_filter = ".[]"
    /\ last.res = HugeA

\* C9: apply_jq_filter with cache_result true and a filtered value of more
\* than 100 KB returns the id of a new entry, different from the source id,
\* that holds the filtered value, is live, and whose
\* get_info().metadata.source_cache_id is the source id.
C9_FilterRecache ==
    [][(/\ last'.op = "apply_jq_filter"
        /\ LiveSource(cache, last')
        /\ JqAll(last'.arg.jq_filter, cache[last'.id].data).ok
        /\ last'.arg.cache_result) =>
          LET results == JqAll(last'.arg.jq_filter, cache[last'.id].data).results
              value == IF Len(results) = 1 THEN results[1] ELSE List(results)
          IN Utf8Len(Dumps(value)) > FilterCacheThreshold =>
                /\ last'.res = UuidStr(nextId)
                /\ nextId # last'.id
                /\ nextId \notin DOMAIN cache
                /\ nextId \in DOMAIN cache'
                /\ cache'[nextId].data = value
                /\ GetInfoResult(cache', nextId).metadata.source_cache_id = last'.id
                /\ ~ExpiredAt(cache', nextId, now')]_vars

\* a filter was applied to an entry that is itself a stored filter result
C9_Witness ==
    /\ last.op = "apply_jq_filter"
    /\ last.res.kind # "error"
    /\ last.id \in DOMAIN cache
    /\ cache[last.id].metadata.source_cache_id # 0

\* the entries other than cache_id are the same before and after
OthersKept(c1, c2, cache_id) ==
    /\ DOMAIN c2 \ {cache_id} = DOMAIN c1 \ {cache_id}
    /\ \A k \in DOMAIN c1 \ {cache_id} : c2[k] = c1[k]

\* C10: apply_jq_filter raises NotFound for an absent or expired id and
\* FilterError for a filter that fails to compile or to evaluate; the two
\* differ, and neither changes the set of entries except that the expired
\* source is purged.
C10_FilterErrors ==
    [][last'.op = "apply_jq_filter" =>
          /\ ~LiveSource(cache, last') =>
                /\ last'.res = ValueError(NotFoundMsg)
                /\ last'.res # ValueError(FilterErrorMsg)
                /\ DOMAIN cache' = DOMAIN cache \ {last'.id}
                /\ OthersKept(cache, cache', last'.id)
          /\ (LiveSource(cache, last')
                /\ ~JqAll(last'.arg.jq_filter, cache[last'.id].data).ok) =>
                /\ last'.res = ValueError(FilterErrorMsg)
                /\ last'.res # ValueError(NotFoundMsg)
                /\ DOMAIN cache' = DOMAIN cache
                /\ OthersKept(cache, cache', last'.id)]_vars

\* a filter that does not evaluate on a live entry raised FilterError
C10_Witness ==
    /\ last.op = "apply_jq_filter"
    /\ last.arg.jq_filter = ".[]"
    /\ last.res = ValueError(FilterErrorMsg)
    /\ last.id \in DOMAIN cache

\* C6: for a live entry holding a list of n items (n = 0 included) and any
\* page_size_bytes, get_page returns a PageResult for each page
\* 1..total_pages and the pages' data, concatenated, are the list.
C6_PaginationComplete ==
    /\ walk.status = "absent" => ~walk.live
    /\ walk.status = "done" => walk.acc = walk.orig.items

SameCall(a, b) ==
    /\ a.cache_id = b.cache_id
    /\ a.page = b.page
    /\ a.page_size_bytes = b.page_size_bytes

\* C7: two get_page calls with the same (cache_id, page, page_size_bytes) on
\* an entry that stays live return the same data, total_pages and
\* items_per_page, whatever reads happen in between, and get_page leaves the
\* stored payload as it was.
C7_PageIdempotent ==
    /\ []((last.op = "get_page" /\ last.res # NoneVal /\ snap # NoneVal
            /\ SameCall(last.res, snap)) =>
              /\ last.res.data = snap.data
              /\ last.res.total_pages = snap.total_pages
              /\ last.res.items_per_page = snap.items_per_page)
    /\ [][(last'.op = "get_page" /\ last'.id \in DOMAIN cache') =>
              /\ cache'[last'.id].data = cache[last'.id].data
              /\ cache'[last'.id].json_str = cache[last'.id].json_str]_vars

\* the second page of a list was fetched again after a get in between
C7_Witness ==
    /\ last.op = "get_page"
    /\ last.res # NoneVal
    /\ snap # NoneVal
    /\ SameCall(last.res, snap)
    /\ last.res.page = 2
    /\ IsList(last.res.data)
    /\ Len(last.res.data.items) > 0
    /\ cache[last.id].access_count >= 3

----------------------------------------------------------------------------
(* Bytes and text of the connection (unity_connection.py)

   Bytes and text are strings.  The one character outside ASCII is written
   "@"; its UTF-8 encoding is the two bytes written "#" (lead byte) and "%"
   (continuation byte).  The capital letters A, B, C, M and N each stand for
   a whole string literal too long to write out (its quotes included); they
   hold no quote, backslash or character outside ASCII. *)

Ch(s, i) == SubSeq(s, i, i)

\* s[i:] of Python for a 0-based i
From(s, i) == SubSeq(s, i + 1, Len(s))

\* s[:i] of Python for a 0-based i
Upto(s, i) == SubSeq(s, 1, i)

StartsWith(s, prefix) ==
    Len(s) >= Len(prefix) /\ SubSeq(s, 1, Len(prefix)) = prefix

IsSpace(c) == c \in {" ", "\n", "\t", "\r"}

\* the least and the greatest number of a non-empty set
Least(S) == CHOOSE i \in S : \A j \in S : i <= j
Greatest(S) == CHOOSE i \in S : \A j \in S : i >= j

RECURSIVE Join(_, _, _)
\* pieces[lo] \o ... \o pieces[hi]
Join(pieces, lo, hi) ==
    IF lo > hi THEN ""
    ELSE IF lo = hi THEN pieces[lo]
    ELSE LET mid == (lo + hi) \div 2
         IN Join(pieces, lo, mid) \o Join(pieces, mid + 1, hi)

\* str.strip()
Strip(s) ==
    LET inked == {i \in 1..Len(s) : ~IsSpace(Ch(s, i))}
    IN IF inked = {} THEN "" ELSE SubSeq(s, Least(inked), Greatest(inked))

\* s.find(pat): the first 0-based index where pat starts, or -1
Find(s, pat) ==
    LET at == {i \in 0..(Len(s) - Len(pat)) : SubSeq(s, i + 1, i + Len(pat)) = pat}
    IN IF at = {} THEN 0 - 1 ELSE Least(at)

\* s.rfind(c, start) for a single character c: the last 0-based index at or
\* after start that holds c, or -1
RFind(s, c, start) ==
    LET at == {i \in start..(Len(s) - 1) : Ch(s, i + 1) = c}
    IN IF at = {} THEN 0 - 1 ELSE Greatest(at)

\* s.replace('\\"', '"'): every backslash that stands before a quote goes
ReplaceEscapedQuotes(s) ==
    Join([i \in 1..Len(s) |->
             IF Ch(s, i) = "\\" /\ i < Len(s) /\ Ch(s, i + 1) = "\"" THEN "" ELSE Ch(s, i)],
         1, Len(s))

\* bytes.decode('utf-8'): the text, or UnicodeDecodeError for a lead byte
\* without its continuation byte or a continuation byte on its own
DecodeUtf8(b) ==
    LET ok == \A i \in 1..Len(b) :
                 /\ Ch(b, i) = "#" => (i < Len(b) /\ Ch(b, i + 1) = "%")
                 /\ Ch(b, i) = "%" => (i > 1 /\ Ch(b, i - 1) = "#")
    IN IF ok
       THEN [ok |-> TRUE,
             text |-> Join([i \in 1..Len(b) |->
                              CASE Ch(b, i) = "#" -> "@"
                                [] Ch(b, i) = "%" -> ""
                                [] OTHER -> Ch(b, i)],
                           1, Len(b))]
       ELSE [ok |-> FALSE, text |-> ""]

----------------------------------------------------------------------------
(* json.loads and json.dumps on the documents of the wire.  A decoded value
   is a record with a kind: "dict" (keys and vals in document order), "text"
   (a short string), "str" and "list" as above, "num", "bool", "none". *)

Num(s) == [kind |-> "num", digits |-> s]
Bool(b) == [kind |-> "bool", val |-> b]

\* strings of 59974 and 59975 characters: the result {"success": true,
\* "data": <string>} serializes to 60003 and 60004 characters with them,
\* 15000 and 15001 estimated tokens
MidA == Str(5, 59974)
OverA == Str(6, 59975)

LongLiterals == {"A", "B", "C", "M", "N"}

LongValue(c) ==
    CASE c = "A" -> BigA
      [] c = "B" -> BigB
      [] c = "C" -> BigC
      [] c = "M" -> MidA
      [] c = "N" -> OverA

Digits == {"0", "1", "2", "3", "4", "5", "6", "7", "8", "9"}

ParseFail == [ok |-> FALSE, val |-> NoneVal, next |-> 0]
Parsed(val, next) == [ok |-> TRUE, val |-> val, next |-> next]

RECURSIVE SkipSpace(_, _)
SkipSpace(t, i) == IF i <= Len(t) /\ IsSpace(Ch(t, i)) THEN SkipSpace(t, i + 1) ELSE i

RECURSIVE ParseChars(_, _, _)
\* the characters of a string literal after its opening quote
ParseChars(t, i, acc) ==
    IF i > Len(t) THEN ParseFail
    ELSE LET c == Ch(t, i)
         IN IF c = "\"" THEN Parsed(Text(acc), i + 1)
            ELSE IF c \in {"\n", "\t", "\r"} THEN ParseFail
            ELSE IF c = "\\"
            THEN IF i + 1 > Len(t) THEN ParseFail
                 ELSE LET e == Ch(t, i + 1)
                      IN IF e \in {"\"", "\\", "/"} THEN ParseChars(t, i + 2, acc \o e)
                         ELSE IF e = "n" THEN ParseChars(t, i + 2, acc \o "\n")
                         ELSE IF e = "t" THEN ParseChars(t, i + 2, acc \o "\t")
                         ELSE IF e = "r" THEN ParseChars(t, i + 2, acc \o "\r")
                         ELSE ParseFail
            ELSE ParseChars(t, i + 1, acc \o c)

RECURSIVE ParseDigits(_, _)
ParseDigits(t, i) == IF i <= Len(t) /\ Ch(t, i) \in Digits THEN ParseDigits(t, i + 1) ELSE i

\* an integer: "-"? ("0" | [1-9][0-9]*)
ParseNumber(t, i) ==
    LET d == IF Ch(t, i) = "-" THEN i + 1 ELSE i
        e == IF d <= Len(t) /\ Ch(t, d) = "0" THEN d + 1 ELSE ParseDigits(t, d)
    IN IF e = d THEN ParseFail ELSE Parsed(Num(SubSeq(t, i, e - 1)), e)

RECURSIVE ParseValue(_, _)
RECURSIVE ParseMembers(_, _, _, _)
RECURSIVE ParseElements(_, _, _)

\* the members of an object after "{" or ",": string ":" value, then "," or "}"
ParseMembers(t, i, keys, vals) ==
    LET k == SkipSpace(t, i)
    IN IF k > Len(t) \/ Ch(t, k) # "\"" THEN ParseFail
       ELSE LET key == ParseChars(t, k + 1, "")
                c == SkipSpace(t, key.next)
            IN IF ~key.ok \/ c > Len(t) \/ Ch(t, c) # ":" THEN ParseFail
               ELSE LET v == ParseValue(t, SkipSpace(t, c + 1))
                        e == SkipSpace(t, v.next)
                    IN IF ~v.ok \/ e > Len(t) THEN ParseFail
                       ELSE IF Ch(t, e) = ","
                       THEN ParseMembers(t, e + 1, Append(keys, key.val.s), Append(vals, v.val))
                       ELSE IF Ch(t, e) = "}"
                       THEN Parsed(Dict(Append(keys, key.val.s), Append(vals, v.val)), e + 1)
                       ELSE ParseFail

\* the elements of an array after "[" or ",": value, then "," or "]"
ParseElements(t, i, items) ==
    LET v == ParseValue(t, SkipSpace(t, i))
        e == SkipSpace(t, v.next)
    IN IF ~v.ok \/ e > Len(t) THEN ParseFail
       ELSE IF Ch(t, e) = "," THEN ParseElements(t, e + 1, Append(items, v.val))
       ELSE IF Ch(t, e) = "]" THEN Parsed(List(Append(items, v.val)), e + 1)
       ELSE ParseFail

ParseValue(t, i) ==
    IF i > Len(t) THEN ParseFail
    ELSE LET c == Ch(t, i)
         IN CASE c = "{" ->
                    LET k == SkipSpace(t, i + 1)
                    IN IF k <= Len(t) /\ Ch(t, k) = "}" THEN Parsed(EmptyDict, k + 1)
                       ELSE ParseMembers(t, i + 1, <<>>, <<>>)
              [] c = "[" ->
                    LET k == SkipSpace(t, i + 1)
                    IN IF k <= Len(t) /\ Ch(t, k) = "]" THEN Parsed(List(<<>>), k + 1)
                       ELSE ParseElements(t, i + 1, <<>>)
              [] c = "\"" -> ParseChars(t, i + 1, "")
              [] c \in LongLiterals -> Parsed(LongValue(c), i + 1)
              [] c \in Digits \cup {"-"} -> ParseNumber(t, i)
              [] StartsWith(From(t, i - 1), "true") -> Parsed(Bool(TRUE), i + 4)
              [] StartsWith(From(t, i - 1), "false") -> Parsed(Bool(FALSE), i + 5)
              [] StartsWith(From(t, i - 1), "null") -> Parsed(NoneVal, i + 4)
              [] OTHER -> ParseFail

\* json.loads(text): one value between optional spaces, or JSONDecodeError
Loads(text) ==
    LET v == ParseValue(text, SkipSpace(text, 1))
    IN IF v.ok /\ SkipSpace(text, v.next) = Len(text) + 1
       THEN [ok |-> TRUE, val |-> v.val]
       ELSE [ok |-> FALSE, val |-> NoneVal]

RECURSIVE LastIndexOf(_, _, _)
LastIndexOf(keys, key, i) ==
    IF i = 0 THEN 0 ELSE IF keys[i] = key THEN i ELSE LastIndexOf(keys, key, i - 1)

HasKey(d, key) == LastIndexOf(d.keys, key, Len(d.keys)) # 0

\* d.get(key, default): of a key written twice the last value stands
DictGet(d, key, default) ==
    LET i == LastIndexOf(d.keys, key, Len(d.keys))
    IN IF i = 0 THEN default ELSE d.vals[i]

----------------------------------------------------------------------------
(* UnityConnection.receive_full_response *)

\* the keepalive reply is recognized by its first bytes
PongPrefix == "{\"status\":\"success\",\"result\":{\"message\":\"pong\""

\* config.buffer_size, the most bytes one recv returns: no stream modelled
\* is longer, so that a whole document can arrive in one read
buffer_size == 64

\* config.connection_timeout, in ticks of the time a recv may wait
connection_timeout == 2

Bytes(b) == [kind |-> "bytes", b |-> b]
Raised(type, msg) == [kind |-> "error", type |-> type, msg |-> msg]

ClosedMsg == "Connection closed before receiving data"
TimeoutMsg == "Timeout receiving Unity response"
DecodeErrorMsg == "'utf-8' codec can't decode bytes"
ResetMsg == "Connection reset by peer"

\* "Handle escaped quotes in the content" (lines 95-103)
ContentFix(decoded_data) ==
    LET content_start == Find(decoded_data, "\"content\":") + 9
        content_end == RFind(decoded_data, "\"", content_start)
    IN IF Find(decoded_data, "\"content\":") = 0 - 1 THEN decoded_data
       ELSE IF content_end > content_start
       THEN Upto(decoded_data, content_start)
               \o ReplaceEscapedQuotes(SubSeq(decoded_data, content_start + 1, content_end))
               \o From(decoded_data, content_end)
       ELSE decoded_data

\* the loop body without the keepalive case
AfterChunk_NoPongCase(data) ==
    LET decoded == DecodeUtf8(data)
    IN IF ~decoded.ok THEN "raise"
       ELSE IF Loads(ContentFix(decoded.text)).ok THEN "return"
       ELSE "continue"

\* What the loop does with data, the chunks joined so far (lines 84-117):
\* "raise" when they do not decode, "return" when they start with the
\* keepalive reply or parse as one JSON document, "continue" otherwise
AfterChunk(data) ==
    LET decoded == DecodeUtf8(data)
    IN IF ~decoded.ok THEN "raise"
       ELSE IF StartsWith(Strip(decoded.text), PongPrefix) THEN "return"
       ELSE IF Loads(ContentFix(decoded.text)).ok THEN "return"
       ELSE "continue"

\* A zero-byte read (lines 77-80): the exception when nothing was read;
\* otherwise "break" leaves the loop and the function ends without a return
\* statement, which hands None to the caller
AfterClose(data) ==
    IF data = "" THEN Raised("Exception", ClosedMsg) ELSE NoneVal

\* The states of one call: the chunks joined so far, the time waited in
\* recv, the fault met (a timeout, the peer closing, a socket error), the
\* result once the call has ended, and the bytes the peer sent in all
Reading(sent) ==
    [pc |-> "reading", data |-> "", elapsed |-> 0, fault |-> "none",
     res |-> NoneVal, sent |-> sent]

\* the call after recv returned chunk, having waited w
AfterRecv(r, chunk, w) ==
    LET data == r.data \o chunk
        step == AfterChunk(data)
    IN [r EXCEPT !.data = data,
                 !.elapsed = @ + w,
                 !.pc = IF step = "continue" THEN "reading" ELSE "done",
                 !.res = CASE step = "return" -> Bytes(data)
                           [] step = "raise" -> Raised("UnicodeDecodeError", DecodeErrorMsg)
                           [] OTHER -> NoneVal]

----------------------------------------------------------------------------
(* One call of receive_full_response, read by read: the peer has sent the
   bytes of stream, recv returns them in chunks of any size, and the peer
   may close the stream after them, fall silent or break the connection. *)

PongDoc == PongPrefix \o "}}"
OkDoc == "{\"status\":\"success\",\"result\":{\"n\":1}}"
AccentDoc == "{\"status\":\"success\",\"result\":{\"name\":\"#%\"}}"
ErrorDoc == "{\"status\":\"error\",\"error\":\"boom\"}"
ContentDoc == "{\"status\":\"success\",\"result\":{\"content\":\"a\\\"b\"}}"

\* the complete response documents
Documents == {PongDoc, OkDoc, AccentDoc, ErrorDoc, ContentDoc}

\* a document cut short, a keepalive reply followed by the first bytes of
\* another response, nothing at all
Streams == Documents \cup {"{\"status\":", PongDoc \o "{\"st", ""}

\* get_cache(): the default cache is ResponseCache(), empty
DefaultCache ==
    /\ NoCallers
    /\ NoTools
    /\ cache = <<>>
    /\ total = 0
    /\ max_size_mb = 100
    /\ expiration_minutes = 30
    /\ now = 0
    /\ nextId = 1
    /\ last = Ret("init", 0, NoArg, 0, FALSE, NoneVal)
    /\ walk = IdleWalk
    /\ snap = NoneVal

InitFrame ==
    /\ DefaultCache
    /\ \E s \in Streams :
          /\ stream = s
          /\ rx = Reading(s)
    /\ sock = <<>>
    /\ unity_connection = 0
    /\ lastCall = NoCallYet

\* recv returns the next k bytes after waiting w
RecvChunk ==
    \E k \in 1..Min(Len(stream), buffer_size), w \in 0..(connection_timeout - 1) :
        /\ rx.pc = "reading"
        /\ rx.elapsed + w <= MaxElapsed
        /\ rx' = AfterRecv(rx, SubSeq(stream, 1, k), w)
        /\ stream' = From(stream, k)
        /\ UNCHANGED <<toolVars, callVars, cacheVars, sock, unity_connection, lastCall>>

\* recv returns no byte: the peer closed the stream after what it sent
RecvClosed ==
    \E w \in 0..(connection_timeout - 1) :
        /\ rx.pc = "reading"
        /\ stream = ""
        /\ rx.elapsed + w <= MaxElapsed
        /\ rx' = [rx EXCEPT !.pc = "done", !.elapsed = @ + w, !.fault = "closed",
                            !.res = AfterClose(rx.data)]
        /\ UNCHANGED <<toolVars, callVars, cacheVars, stream, sock, unity_connection, lastCall>>

\* recv raises socket.timeout: nothing arrived for connection_timeout
RecvTimeout ==
    /\ rx.pc = "reading"
    /\ rx.elapsed + connection_timeout <= MaxElapsed
    /\ rx' = [rx EXCEPT !.pc = "done", !.elapsed = @ + connection_timeout,
                        !.fault = "timeout",
                        !.res = Raised("Exception", TimeoutMsg)]
    /\ UNCHANGED <<toolVars, callVars, cacheVars, stream, sock, unity_connection, lastCall>>

\* recv raises another socket error, which the call raises again
RecvError ==
    /\ rx.pc = "reading"
    /\ rx' = [rx EXCEPT !.pc = "done", !.fault = "reset",
                        !.res = Raised("ConnectionResetError", ResetMsg)]
    /\ UNCHANGED <<toolVars, callVars, cacheVars, stream, sock, unity_connection, lastCall>>

NextFrame ==
    \/ RecvChunk
    \/ RecvClosed
    \/ RecvTimeout
    \/ RecvError

SpecFrame == InitFrame /\ [][NextFrame]_vars

----------------------------------------------------------------------------
(* UnityConnection: connect, disconnect, send_command *)

\* bool(v) of Python for the values of a decoded document
IsTrue(v) ==
    CASE v.kind = "none" -> FALSE
      [] v.kind = "text" -> v.s # ""
      [] v.kind = "bool" -> v.val
      [] v.kind = "num" -> v.digits \notin {"0", "-0"}
      [] v.kind = "dict" -> Len(v.keys) > 0
      [] OTHER -> Truthy(v)

\* the characters one character of a string takes in json.dumps(v), which
\* escapes quotes, backslashes, control characters and, with ensure_ascii,
\* every character outside ASCII
EscapedLen(c) ==
    CASE c \in {"\"", "\\", "\n", "\t", "\r"} -> 2
      [] c = "@" -> 6
      [] OTHER -> 1

RECURSIVE SumOver(_, _)
\* n[1] + ... + n[i]
SumOver(n, i) == IF i = 0 THEN 0 ELSE n[i] + SumOver(n, i - 1)

QuotedLen(s) == 2 + SumOver([i \in 1..Len(s) |-> EscapedLen(Ch(s, i))], Len(s))

RECURSIVE DumpsLen(_)
\* len(json.dumps(v)) with the default separators ", " and ": "
DumpsLen(v) ==
    CASE v.kind = "text" -> QuotedLen(v.s)
      [] v.kind = "num" -> Len(v.digits)
      [] v.kind = "bool" -> IF v.val THEN 4 ELSE 5
      [] v.kind = "none" -> 4
      [] v.kind = "str" -> v.len + 2
      [] v.kind = "list" ->
            2 + SumOver([i \in 1..Len(v.items) |-> DumpsLen(v.items[i])], Len(v.items))
              + 2 * Max(0, Len(v.items) - 1)
      [] v.kind = "dict" ->
            2 + SumOver([i \in 1..Len(v.keys) |->
                            QuotedLen(v.keys[i]) + 2 + DumpsLen(v.vals[i])], Len(v.keys))
              + 2 * Max(0, Len(v.keys) - 1)

\* json.dumps({"type": command_type, "params": params or {}}, ensure_ascii=False)
\* for the params passed below: None or an empty dict
CommandJson(command_type, params) ==
    "{\"type\": \"" \o command_type \o "\", \"params\": {}}"

TokenThreshold == 15000

NotConnectedMsg == "Not connected to Unity"
VerificationFailedMsg == "Connection verification failed"
CommunicationFailedMsg == "Failed to communicate with Unity"
InvalidJsonMsg == "Invalid JSON response from Unity"
UnknownErrorMsg == "Unknown Unity error"
JsonErrorMsg == "Expecting value"
NoDecodeMsg == "'NoneType' object has no attribute 'decode'"
NoGetMsg == "object has no attribute 'get'"
SendFailedMsg == "Broken pipe"

\* str(v) for the value carried as the message of a remote error
StrOf(v) ==
    CASE v.kind = "text" -> v.s
      [] v.kind = "num" -> v.digits
      [] OTHER -> "<" \o v.kind \o ">"

\* What an observer records of the steps of a call: connect and its
\* outcome, sendall and the bytes written
Step(act, arg) == [act |-> act, arg |-> arg]

\* sock is None, or a socket
NoSock == "None"
ASocket == "socket"

ConnectOutcomes == {"ok", "timeout", "refused", "other"}
Tails == {"timeout", "closed", "reset"}

\* The surroundings of one send_command call: the outcome of connect if
\* it is called, whether sendall succeeds, the bytes the peer replies, the
\* place where recv cuts them in two chunks (0: one chunk), and what recv
\* does once they are read: time out, return b"", or raise a socket error
Env(connect, send, reply, cut, tail) ==
    [connect |-> connect, send |-> send, reply |-> reply, cut |-> cut, tail |-> tail]

\* connect that leaves the socket it created in place when it fails
ConnectResult_KeepSock(cur, outcome) ==
    IF cur # NoSock THEN [sock |-> cur, ok |-> TRUE, steps |-> <<>>]
    ELSE [sock |-> ASocket, ok |-> outcome = "ok", steps |-> <<Step("connect", outcome)>>]

\* UnityConnection.connect on an object whose sock is cur
ConnectResult(cur, outcome) ==
    IF cur # NoSock THEN [sock |-> cur, ok |-> TRUE, steps |-> <<>>]
    ELSE IF outcome = "ok"
    THEN [sock |-> ASocket, ok |-> TRUE, steps |-> <<Step("connect", outcome)>>]
    ELSE [sock |-> NoSock, ok |-> FALSE, steps |-> <<Step("connect", outcome)>>]

\* UnityConnection.disconnect: the socket is closed and sock is None
DisconnectResult(cur) == NoSock

\* the chunks recv returns of the reply
ChunksOf(env) ==
    IF env.reply = "" THEN <<>>
    ELSE IF env.cut <= 0 \/ env.cut >= Len(env.reply) THEN <<env.reply>>
    ELSE <<Upto(env.reply, env.cut), From(env.reply, env.cut)>>

RECURSIVE ReceiveFrom(_, _, _)
\* the loop of receive_full_response from the state r of the call
ReceiveFrom(r, chunks, tail) ==
    IF r.pc = "done" THEN r.res
    ELSE IF Len(chunks) > 0 THEN ReceiveFrom(AfterRecv(r, Head(chunks), 0), Tail(chunks), tail)
    ELSE CASE tail = "closed" -> AfterClose(r.data)
           [] tail = "timeout" -> Raised("Exception", TimeoutMsg)
           [] OTHER -> Raised("ConnectionResetError", ResetMsg)

\* receive_full_response as one call
ReceiveFullResponse(env) == ReceiveFrom(Reading(env.reply), ChunksOf(env), env.tail)

\* json.loads of the decoded text: the value, or JSONDecodeError
LoadedValue(loaded) ==
    IF loaded.ok THEN loaded.val ELSE Raised("JSONDecodeError", JsonErrorMsg)

\* json.loads of what decode('utf-8') gives: the value, or the exception
DecodedValue(decoded) ==
    IF decoded.ok THEN LoadedValue(Loads(decoded.text))
    ELSE Raised("UnicodeDecodeError", DecodeErrorMsg)

\* json.loads(response_data.decode('utf-8')): the value, or the exception
\* raised (response_data is None, does not decode, or is not JSON)
DecodeResponse(response_data) ==
    IF response_data = NoneVal THEN Raised("AttributeError", NoDecodeMsg)
    ELSE DecodedValue(DecodeUtf8(response_data.b))

IsError(v) == v.kind = "error"

\* lines 138-143 on the decoded response
PingResponse(response) ==
    IF IsError(response) THEN response
    ELSE IF response.kind # "dict" THEN Raised("AttributeError", NoGetMsg)
    ELSE IF DictGet(response, "status", NoneVal) # Text("success")
    THEN Raised("ConnectionError", VerificationFailedMsg)
    ELSE Dict(<<"message">>, <<Text("pong")>>)

\* lines 136-143 on what receive_full_response gave
PingReply(response_data) ==
    IF IsError(response_data) THEN response_data
    ELSE PingResponse(DecodeResponse(response_data))

\* The body of the keepalive branch (lines 132-143): the value returned or
\* the exception raised inside the try
PingBody(env) ==
    IF ~env.send THEN Raised("BrokenPipeError", SendFailedMsg)
    ELSE PingReply(ReceiveFullResponse(env))

\* the reference returned in place of a large payload (lines 202-213)
Reference(cache_id, result_len) ==
    [kind |-> "reference", success |-> TRUE, cached |-> TRUE, cache_id |-> cache_id,
     data |-> [cache_id |-> cache_id,
               size_kb |-> result_len \div 1024,
               estimated_tokens |-> result_len \div 4]]

\* the metadata send_command stores with a large payload (lines 191-196)
CommandMeta(command_type, params, result_len) ==
    [tool |-> command_type, params |-> params, size_bytes |-> result_len,
     estimated_tokens |-> result_len \div 4,
     source_cache_id |-> 0, jq_filter |-> "", filtered_from |-> ""]

\* the large responses are those of at least TokenThreshold estimated tokens
Oversize_AtThreshold(result) ==
    /\ result.kind = "dict"
    /\ IsTrue(DictGet(result, "success", NoneVal))
    /\ IsTrue(DictGet(result, "data", NoneVal))
    /\ DumpsLen(result) \div 4 >= TokenThreshold

\* the test of lines 183-189: a dict with success and data, of more than
\* TokenThreshold estimated tokens
Oversize(result) ==
    /\ result.kind = "dict"
    /\ IsTrue(DictGet(result, "success", NoneVal))
    /\ IsTrue(DictGet(result, "data", NoneVal))
    /\ DumpsLen(result) \div 4 > TokenThreshold

\* response.get("error") or response.get("message", "Unknown Unity error")
ErrorMessage(error, response) ==
    IF IsTrue(error) THEN error
    ELSE DictGet(response, "message", Text(UnknownErrorMsg))

\* lines 165-180 on the decoded response
CommandResponse(response) ==
    IF IsError(response)
    THEN IF response.type = "JSONDecodeError"
         THEN Raised("Exception", InvalidJsonMsg \o ": " \o response.msg)
         ELSE response
    ELSE IF response.kind # "dict" THEN Raised("AttributeError", NoGetMsg)
    ELSE IF DictGet(response, "status", NoneVal) = Text("error")
    THEN Raised("Exception",
                StrOf(ErrorMessage(DictGet(response, "error", NoneVal), response)))
    ELSE DictGet(response, "result", EmptyDict)

\* lines 164-180 on what receive_full_response gave
CommandReply(response_data) ==
    IF IsError(response_data) THEN response_data
    ELSE CommandResponse(DecodeResponse(response_data))

\* The body of the general branch up to the result (lines 153-180): the
\* result of the response, or the exception raised inside the try
CommandBody(env) ==
    IF ~env.send THEN Raised("BrokenPipeError", SendFailedMsg)
    ELSE CommandReply(ReceiveFullResponse(env))

----------------------------------------------------------------------------
(* The surroundings of the calls: what connect does, whether sendall
   succeeds, and what the peer answers *)

BigDoc == "{\"status\":\"success\",\"result\":{\"success\":true,\"data\":[A,B]}}"
MidDoc == "{\"status\":\"success\",\"result\":{\"success\":true,\"data\":M}}"
OverDoc == "{\"status\":\"success\",\"result\":{\"success\":true,\"data\":N}}"
SmallDoc == "{\"status\":\"success\",\"result\":{\"success\":true,\"data\":[1]}}"
FailedDoc == "{\"status\":\"success\",\"result\":{\"success\":false,\"data\":[A]}}"
NoResultDoc == "{\"status\":\"success\"}"
ErrorMessageDoc == "{\"status\":\"error\",\"message\":\"bad\"}"
ErrorBareDoc == "{\"status\":\"error\"}"

\* the responses a peer gives, each arriving in one read
Replies ==
    {PongDoc, OkDoc, AccentDoc, ErrorDoc, ErrorMessageDoc, ErrorBareDoc,
     BigDoc, MidDoc, OverDoc, SmallDoc, FailedDoc, NoResultDoc}

\* a peer that does not answer, closes the stream or breaks the connection;
\* a response cut before its last byte; a response cut short by the peer
Faults ==
    {Env("ok", TRUE, "", 0, t) : t \in Tails}
        \cup {Env("ok", TRUE, d, Len(d) - 1, "timeout") : d \in {PongDoc, OkDoc}}
        \cup {Env("ok", TRUE, "{\"status\":", 0, "closed")}

\* the surroundings of a call on a connected object
Envs ==
    {Env("ok", TRUE, d, 0, "timeout") : d \in Replies}
        \cup Faults
        \cup {Env("ok", FALSE, "", 0, "timeout")}

\* the surroundings in which connect fails
ConnectFailures == {Env(o, TRUE, "", 0, "timeout") : o \in ConnectOutcomes \ {"ok"}}

\* the surroundings of a keepalive probe
PingEnvs ==
    {Env("ok", TRUE, d, 0, "timeout") : d \in {PongDoc, OkDoc, ErrorDoc}}
        \cup {Env("ok", TRUE, PongDoc, Len(PongDoc) - 1, "timeout"),
              Env("ok", TRUE, "", 0, "timeout"),
              Env("ok", FALSE, "", 0, "timeout")}

\* the surroundings of a call that is not made
NoEnv == Env("ok", TRUE, "", 0, "timeout")

CommandTypes == {"ping", "manage_scene"}

AllEnvs == Envs \cup ConnectFailures

\* the body of send_command in each of these surroundings
Bodies ==
    [command_type \in CommandTypes |->
        [env \in AllEnvs |->
            IF command_type = "ping" THEN PingBody(env) ELSE CommandBody(env)]]

----------------------------------------------------------------------------
(* send_command *)

\* the sendall step of a call: b"ping", or the command encoded
Written(command_type, params) ==
    Step("sendall", IF command_type = "ping" THEN "ping"
                    ELSE CommandJson(command_type, params))

\* send_command whose general handler reports the failure and keeps the socket
SendCommandOutcome_KeepSock(conn, body, command_type, params, st, new_id, r, max_mb, exp_min) ==
    IF ~conn.ok
    THEN [sock |-> conn.sock, st |-> st, cached |-> FALSE, steps |-> conn.steps,
          res |-> Raised("ConnectionError", NotConnectedMsg)]
    ELSE IF IsError(body)
    THEN [sock |-> IF command_type = "ping" THEN NoSock ELSE conn.sock, st |-> st, cached |-> FALSE,
          steps |-> conn.steps \o <<Written(command_type, params)>>,
          res |-> IF command_type = "ping"
                  THEN Raised("ConnectionError", VerificationFailedMsg \o ": " \o body.msg)
                  ELSE Raised("Exception", CommunicationFailedMsg \o ": " \o body.msg)]
    ELSE IF command_type # "ping" /\ Oversize(body)
    THEN [sock |-> conn.sock,
          st |-> AddEntry(st, new_id, DictGet(body, "data", NoneVal),
                          CommandMeta(command_type, params, DumpsLen(body)),
                          r, max_mb, exp_min),
          cached |-> TRUE,
          steps |-> conn.steps \o <<Written(command_type, params)>>,
          res |-> Reference(new_id, DumpsLen(body))]
    ELSE [sock |-> conn.sock, st |-> st, cached |-> FALSE,
          steps |-> conn.steps \o <<Written(command_type, params)>>, res |-> body]

\* send_command once connect (if called) gave conn and the branch taken gave
\* body.  st, new_id, r, max_mb and exp_min are the default cache, the uuid4
\* value and the clock readings of its add.  The result: sock after the
\* call, the cache, whether the payload was stored, the steps taken, the
\* value returned or raised
SendCommandOutcome(conn, body, command_type, params, st, new_id, r, max_mb, exp_min) ==
    IF ~conn.ok
    THEN [sock |-> conn.sock, st |-> st, cached |-> FALSE, steps |-> conn.steps,
          res |-> Raised("ConnectionError", NotConnectedMsg)]
    ELSE IF IsError(body)
    THEN [sock |-> NoSock, st |-> st, cached |-> FALSE,
          steps |-> conn.steps \o <<Written(command_type, params)>>,
          res |-> IF command_type = "ping"
                  THEN Raised("ConnectionError", VerificationFailedMsg \o ": " \o body.msg)
                  ELSE Raised("Exception", CommunicationFailedMsg \o ": " \o body.msg)]
    ELSE IF command_type # "ping" /\ Oversize(body)
    THEN [sock |-> conn.sock,
          st |-> AddEntry(st, new_id, DictGet(body, "data", NoneVal),
                          CommandMeta(command_type, params, DumpsLen(body)),
                          r, max_mb, exp_min),
          cached |-> TRUE,
          steps |-> conn.steps \o <<Written(command_type, params)>>,
          res |-> Reference(new_id, DumpsLen(body))]
    ELSE [sock |-> conn.sock, st |-> st, cached |-> FALSE,
          steps |-> conn.steps \o <<Written(command_type, params)>>, res |-> body]

\* UnityConnection.send_command on an object whose sock is cur, in the
\* surroundings env
SendCommandResult(cur, command_type, params, env, st, new_id, r, max_mb, exp_min) ==
    SendCommandOutcome(ConnectResult(cur, env.connect), Bodies[command_type][env],
                       command_type, params, st, new_id, r, max_mb, exp_min)

----------------------------------------------------------------------------
(* get_unity_connection *)

CouldNotConnectMsg == "Could not connect to Unity. Ensure the Unity Editor and MCP Bridge are running."
CouldNotVerifyMsg == "Could not establish valid Unity connection"

\* a connection object handed to the caller
Conn(obj) == [kind |-> "conn", obj |-> obj]

\* What an observer records of the steps of get_unity_connection: the
\* keepalive probe, disconnect, UnityConnection() and connect, each with the
\* object it is called on and whether it succeeded
GStep(act, obj, ok) == [act |-> act, obj |-> obj, ok |-> ok]

NoCache == [cache |-> <<>>, total |-> 0]

\* send_command("ping"), which leaves the cache alone
Ping(cur, env) ==
    SendCommandResult(cur, "ping", NoneVal, env, NoCache, 0, <<0, 0>>, 0, 0)

\* the sock of every object, with object obj (new or not) set to s
WithSock(socks, obj, s) ==
    [o \in DOMAIN socks \cup {obj} |-> IF o = obj THEN s ELSE socks[o]]

\* lines 255-267: the new connection obj is handed out if its probe p2
\* succeeded; otherwise it is disconnected and the call fails.  An object
\* that is not handed out is referenced by nobody and is dropped
Probed(socks, steps, obj, p2) ==
    IF IsError(p2.res)
    THEN [slot |-> 0, socks |-> socks,
          steps |-> steps \o <<GStep("ping", obj, FALSE), GStep("disconnect", obj, TRUE)>>,
          res |-> Raised("ConnectionError", CouldNotVerifyMsg \o ": " \o p2.res.msg)]
    ELSE [slot |-> obj, socks |-> WithSock(socks, obj, p2.sock),
          steps |-> steps \o <<GStep("ping", obj, TRUE)>>,
          res |-> Conn(obj)]

\* a new connection handed out without a probe
NewConnection_NoProbe(socks, first, obj, conn, env2) ==
    IF ~conn.ok
    THEN [slot |-> 0, socks |-> socks,
          steps |-> first \o <<GStep("new", obj, TRUE), GStep("connect", obj, FALSE)>>,
          res |-> Raised("ConnectionError", CouldNotConnectMsg)]
    ELSE [slot |-> obj, socks |-> WithSock(socks, obj, conn.sock),
          steps |-> first \o <<GStep("new", obj, TRUE), GStep("connect", obj, TRUE)>>,
          res |-> Conn(obj)]

\* lines 247-267: a new connection is created, connected (conn is what
\* connect gives) and probed in the surroundings env2
NewConnection(socks, first, obj, conn, env2) ==
    IF ~conn.ok
    THEN [slot |-> 0, socks |-> socks,
          steps |-> first \o <<GStep("new", obj, TRUE), GStep("connect", obj, FALSE)>>,
          res |-> Raised("ConnectionError", CouldNotConnectMsg)]
    ELSE Probed(socks, first \o <<GStep("new", obj, TRUE), GStep("connect", obj, TRUE)>>,
                obj, Ping(conn.sock, env2))

\* lines 232-245 and what follows: the shared connection is handed out if
\* its probe p1 succeeded; otherwise it is disconnected and replaced
Shared(shared, socks, p1, outcome, env2) ==
    IF ~IsError(p1.res)
    THEN [slot |-> shared, socks |-> WithSock(socks, shared, p1.sock),
          steps |-> <<GStep("ping", shared, TRUE)>>, res |-> Conn(shared)]
    ELSE NewConnection(WithSock(socks, shared, DisconnectResult(p1.sock)),
                       <<GStep("ping", shared, FALSE), GStep("disconnect", shared, TRUE)>>,
                       Cardinality(DOMAIN socks \ {0}) + 1,
                       ConnectResult(NoSock, outcome), env2)

\* get_unity_connection.  shared is _unity_connection (0: None) and socks
\* the sock of every object; env1 surrounds the probe of the shared
\* connection, outcome is that of connect on the new one and env2 surrounds
\* its probe
GetUnityConnectionResult(shared, socks, env1, outcome, env2) ==
    IF shared = 0
    THEN NewConnection(socks, <<>>, Cardinality(DOMAIN socks \ {0}) + 1,
                       ConnectResult(NoSock, outcome), env2)
    ELSE Shared(shared, socks, Ping(socks[shared], env1), outcome, env2)

----------------------------------------------------------------------------
(* The connection in use: callers obtain the shared connection from
   get_unity_connection and send commands on the connections they hold, one
   call at a time. *)

InitConn ==
    /\ DefaultCache
    /\ ConnIdle

\* the surroundings a call of get_unity_connection can meet: those of the
\* probe of the shared connection, the outcome of connect on a new one and
\* the surroundings of its probe, each drawn only where the call gets there
GetUnityConnection ==
    \E env1 \in IF unity_connection = 0 THEN {NoEnv}
                ELSE IF sock[unity_connection] # NoSock THEN PingEnvs
                ELSE PingEnvs \cup ConnectFailures :
      \E outcome \in IF unity_connection # 0 /\ ~IsError(Ping(sock[unity_connection], env1).res)
                     THEN {"ok"} ELSE ConnectOutcomes :
        \E env2 \in IF outcome = "ok" /\ (unity_connection = 0 \/
                                           IsError(Ping(sock[unity_connection], env1).res))
                    THEN PingEnvs ELSE {NoEnv} :
          \E g \in {GetUnityConnectionResult(unity_connection, sock, env1, outcome, env2)} :
               /\ g.slot \in DOMAIN sock \cup {0} \/ g.slot <= MaxConns
               /\ sock' = g.socks
               /\ unity_connection' = g.slot
               /\ lastCall' = [op |-> "get_unity_connection", shared |-> unity_connection,
                               steps |-> g.steps, res |-> g.res]
               /\ UNCHANGED <<toolVars, callVars, cacheVars, stream, rx>>

\* send_command stores the result of this call
Stores(command_type, env) ==
    /\ command_type # "ping"
    /\ env.connect = "ok"
    /\ ~IsError(Bodies[command_type][env])
    /\ Oversize(Bodies[command_type][env])

SendCommand ==
    \E obj \in DOMAIN sock, command_type \in CommandTypes :
      \E env \in IF command_type = "ping"
                 THEN (IF sock[obj] # NoSock THEN PingEnvs ELSE PingEnvs \cup ConnectFailures)
                 ELSE (IF sock[obj] # NoSock THEN Envs ELSE AllEnvs) :
        \E r \in IF Stores(command_type, env) THEN Readings(2) ELSE {<<now, now>>} :
          \E s \in {SendCommandResult(sock[obj], command_type, NoneVal, env,
                                      State, nextId, r, max_size_mb, expiration_minutes)} :
               /\ s.cached => nextId <= MaxStored
               /\ sock' = [sock EXCEPT ![obj] = s.sock]
               /\ cache' = s.st.cache
               /\ total' = s.st.total
               /\ nextId' = IF s.cached THEN nextId + 1 ELSE nextId
               /\ now' = IF s.cached THEN r[2] ELSE now
               /\ lastCall' = [op |-> "send_command", obj |-> obj,
                               command_type |-> command_type,
                               sock_before |-> sock[obj], env |-> env,
                               steps |-> s.steps, res |-> s.res]
               /\ UNCHANGED <<toolVars, callVars, max_size_mb, expiration_minutes, last, walk, snap,
                              stream, rx, unity_connection>>

NextConn ==
    \/ GetUnityConnection
    \/ SendCommand

SpecConn == InitConn /\ [][NextConn]_vars

----------------------------------------------------------------------------
(* send_command_to_unity (core/unity_bridge.py): a command written on the
   socket of the shared connection, outside UnityConnection.send_command *)

\* {"success": False, "error": str(e)}
BridgeFailure(msg) == Dict(<<"success", "error">>, <<Bool(FALSE), Text(msg)>>)

\* lines 16-17 once receive_full_response has returned or raised
BridgeReply(response_data) ==
    IF IsError(response_data) THEN response_data ELSE DecodeResponse(response_data)

\* the body of the try block (lines 15-17) in the surroundings env: the
\* decoded response, or the exception raised
BridgeBody(env) ==
    IF ~env.send THEN Raised("BrokenPipeError", SendFailedMsg)
    ELSE BridgeReply(ReceiveFullResponse(env))

\* the surroundings of the exchange: a response, or one of the faults
BridgeEnvs ==
    {Env("ok", TRUE, d, 0, "timeout") : d \in {OkDoc, ErrorDoc}}
        \cup Faults
        \cup {Env("ok", FALSE, "", 0, "timeout")}

BridgeBodies == [env \in BridgeEnvs |-> BridgeBody(env)]

\* send_command_to_unity once get_unity_connection has returned or raised g
\* and the try block has given body
BridgeOutcome(g, body) ==
    IF IsError(g.res)
    THEN [slot |-> g.slot, socks |-> g.socks, obj |-> 0, failed |-> FALSE, res |-> g.res]
    ELSE IF g.socks[g.res.obj] = NoSock
    THEN [slot |-> g.slot, socks |-> g.socks, obj |-> g.res.obj, failed |-> FALSE,
          res |-> BridgeFailure(NotConnectedMsg)]
    ELSE IF IsError(body)
    THEN [slot |-> g.slot, socks |-> g.socks, obj |-> g.res.obj, failed |-> TRUE,
          res |-> BridgeFailure(body.msg)]
    ELSE [slot |-> g.slot, socks |-> g.socks, obj |-> g.res.obj, failed |-> FALSE,
          res |-> body]

SendCommandToUnity ==
    \E env1 \in IF unity_connection = 0 THEN {NoEnv}
                ELSE IF sock[unity_connection] # NoSock THEN PingEnvs
                ELSE PingEnvs \cup ConnectFailures :
      \E outcome \in IF unity_connection # 0 /\ ~IsError(Ping(sock[unity_connection], env1).res)
                     THEN {"ok"} ELSE ConnectOutcomes :
        \E env2 \in IF outcome = "ok" /\ (unity_connection = 0 \/
                                           IsError(Ping(sock[unity_connection], env1).res))
                    THEN PingEnvs ELSE {NoEnv} :
          \E g \in {GetUnityConnectionResult(unity_connection, sock, env1, outcome, env2)} :
            \E env \in IF IsError(g.res) THEN {NoEnv} ELSE BridgeEnvs :
              \E b \in {BridgeOutcome(g, IF IsError(g.res) THEN g.res ELSE BridgeBodies[env])} :
                 /\ g.slot \in DOMAIN sock \cup {0} \/ g.slot <= MaxConns
                 /\ sock' = b.socks
                 /\ unity_connection' = b.slot
                 /\ lastCall' = [op |-> "send_command_to_unity", obj |-> b.obj,
                                 env |-> env, failed |-> b.failed,
                                 steps |-> g.steps, res |-> b.res]
                 /\ UNCHANGED <<toolVars, callVars, cacheVars, stream, rx>>

NextBridge ==
    \/ GetUnityConnection
    \/ SendCommand
    \/ SendCommandToUnity

SpecBridge == InitConn /\ [][NextBridge]_vars

----------------------------------------------------------------------------
(* The tool fetch_cached_response (tools/fetch_cached_response.py) on the
   cache get_cache() returns: the default ResponseCache, 100 MB and 30
   minutes.  A tool result is the record of its success flag, its message
   (the fixed part of the text) and its data, NoneVal when it carries none.
   The tool reads the clock of each cache operation it calls at one value. *)

Result(success, message, data) ==
    [kind |-> "result", success |-> success, message |-> message, data |-> data]

IdRequiredMsg == "cache_id is required for action"
TooLargeMsg == "Cached data is still too large"
PageFailedMsg == "Failed to get page"
FilterRequiredMsg == "JQ filter expression is required for filter action"
UnknownActionMsg == "Unknown action"

\* "not cache_id": None or the empty string
NoId == 0

GetLimitKb == 100

\* a test on the whole kilobytes of the size
TooLarge_WholeKb(size_bytes) == size_bytes \div 1024 > GetLimitKb

\* "size_kb = len(...) / 1024; if size_kb > 100"
TooLarge(size_bytes) == size_bytes > GetLimitKb * 1024

Suggestions == {"use_pagination", "use_filter"}

\* action 'list' (lines 34-45)
ToolList(st) ==
    [st |-> st, cached |-> FALSE,
     res |-> Result(TRUE, "Found cached items",
                    [kind |-> "listing",
                     count |-> Len(ListCachedResult(st.cache)),
                     items |-> ListCachedResult(st.cache)])]

\* action 'info' (lines 54-66)
ToolInfo(st, cache_id) ==
    [st |-> st, cached |-> FALSE,
     res |-> IF GetInfoResult(st.cache, cache_id) = NoneVal
             THEN Result(FALSE, NotFoundMsg, NoneVal)
             ELSE Result(TRUE, "Cache info retrieved", GetInfoResult(st.cache, cache_id))]

\* action 'get' once cache.get has returned g (lines 71-100)
ToolGot(g, cache_id) ==
    [st |-> g.st, cached |-> FALSE,
     res |-> IF g.res = NoneVal
             THEN Result(FALSE, NotFoundMsg, NoneVal)
             ELSE IF TooLarge(Utf8Len(Dumps(g.res)))
             THEN Result(FALSE, TooLargeMsg,
                         [kind |-> "too_large",
                          cache_id |-> cache_id,
                          size_bytes |-> Utf8Len(Dumps(g.res)),
                          suggestions |-> Suggestions])
             ELSE Result(TRUE, "Cached data retrieved", g.res)]

\* action 'get_page' once cache.get_page has returned p (lines 107-117)
ToolPaged(p) ==
    [st |-> p.st, cached |-> FALSE,
     res |-> IF p.res = NoneVal
             THEN Result(FALSE, PageFailedMsg, NoneVal)
             ELSE Result(TRUE, "Retrieved page", p.res)]

\* "isinstance(result, str) and len(result) == 36 and result.count('-') == 4"
LooksLikeUuid(v) == v.kind = "str" /\ v.len = UuidLen /\ v.uuid

\* action 'filter' once cache.apply_jq_filter has returned or raised f
\* (lines 127-161)
ToolFiltered(f, cache_id, jq_filter) ==
    [st |-> f.st, cached |-> f.cached,
     res |-> IF f.res.kind = "error"
             THEN Result(FALSE, f.res.msg,
                         [kind |-> "failed", cache_id |-> cache_id, jq_filter |-> jq_filter])
             ELSE IF LooksLikeUuid(f.res)
             THEN Result(TRUE, "Filtered result was large and has been cached",
                         [kind |-> "filtered", cached |-> TRUE, cache_id |-> f.res,
                          result |-> NoneVal, jq_filter |-> jq_filter])
             ELSE Result(TRUE, "JQ filter applied successfully",
                         [kind |-> "filtered", cached |-> FALSE, cache_id |-> NoneVal,
                          result |-> f.res, jq_filter |-> jq_filter])]

\* fetch_cached_response; t = the clock reading of the cache operation it
\* calls, new_id = the uuid4 value add draws when a filter result is stored
FetchCachedResponseResult(st, cache_id, action, page, page_size_kb, jq_filter, cache_filtered_result, t, new_id, max_mb, exp_min) ==
    IF action = "list" THEN ToolList(st)
    ELSE IF cache_id = NoId
    THEN [st |-> st, cached |-> FALSE, res |-> Result(FALSE, IdRequiredMsg, NoneVal)]
    ELSE IF action = "info" THEN ToolInfo(st, cache_id)
    ELSE IF action = "get" THEN ToolGot(GetResult(st, cache_id, t), cache_id)
    ELSE IF action = "get_page"
    THEN ToolPaged(GetPageResult(st, cache_id, page, page_size_kb * 1024, <<t, t>>))
    ELSE IF action = "filter"
    THEN IF jq_filter = ""
         THEN [st |-> st, cached |-> FALSE,
               res |-> Result(FALSE, FilterRequiredMsg, NoneVal)]
         ELSE ToolFiltered(ApplyJqFilterResult(st, cache_id, jq_filter,
                                               cache_filtered_result, <<t, t, t>>,
                                               new_id, max_mb, exp_min),
                           cache_id, jq_filter)
    ELSE [st |-> st, cached |-> FALSE, res |-> Result(FALSE, UnknownActionMsg, NoneVal)]

\* lists of 102400 and of 102401 bytes
AtLimitList == List(<<Str(8, 102396)>>)
OverLimitList == List(<<Str(9, 102397)>>)

\* a list of one string of 36 characters with four dashes, such as the GUID
\* of an object or an id some cache returned earlier
GuidList == List(<<UuidStr(77)>>)

\* the documents the default cache is given
ToolPayloads == {AtLimitList, OverLimitList, BigList, GuidList}

\* the arguments of the tool: those an action does not read keep their
\* defaults
ToolArg(action, page, jq_filter, cache_filtered_result) ==
    [action |-> action, page |-> page, page_size_kb |-> 1024,
     jq_filter |-> jq_filter, cache_result |-> cache_filtered_result]

ToolArgs ==
    {ToolArg(a, 1, "", TRUE) : a \in {"list", "info", "get", "purge"}}
        \cup {ToolArg("get_page", p, "", TRUE) : p \in Pages}
        \cup {ToolArg("filter", 1, f, TRUE) : f \in Filters \cup {""}}
        \cup {ToolArg("filter", 1, ".[]", FALSE)}

\* the entries an action reads with cache.get
ToolReads(arg) == arg.action \in {"get", "get_page"} \/ (arg.action = "filter" /\ arg.jq_filter # "")

InitTool == InitConn

\* a document is stored in the default cache
Store ==
    \E data \in ToolPayloads :
        /\ nextId <= MaxStored
        /\ \E s \in {AddEntry(State, nextId, data, ToolMeta, <<now, now>>,
                               max_size_mb, expiration_minutes)} :
              /\ cache' = s.cache
              /\ total' = s.total
        /\ nextId' = nextId + 1
        /\ last' = Ret("add", nextId, NoArg, now, FALSE, UuidStr(nextId))
        /\ UNCHANGED <<max_size_mb, expiration_minutes, now, walk, snap, connVars, callVars, toolVars>>

\* more than the expiration window passes
Elapse ==
    /\ now < MaxTime * (expiration_minutes + 1)
    /\ now' = now + expiration_minutes + 1
    /\ last' = Ret("tick", 0, NoArg, now', FALSE, NoneVal)
    /\ UNCHANGED <<cache, total, max_size_mb, expiration_minutes, nextId, walk, snap, connVars, callVars, toolVars>>

FetchCachedResponse ==
    \E cache_id \in 0..nextId, arg \in ToolArgs :
        /\ ToolReads(arg) => CanRead(cache_id)
        /\ \E f \in {FetchCachedResponseResult(State, cache_id, arg.action, arg.page,
                                                arg.page_size_kb, arg.jq_filter,
                                                arg.cache_result, now, nextId,
                                                max_size_mb, expiration_minutes)} :
              /\ f.cached => nextId <= MaxIds
              /\ cache' = f.st.cache
              /\ total' = f.st.total
              /\ nextId' = IF f.cached THEN nextId + 1 ELSE nextId
              /\ last' = Ret("fetch_cached_response", cache_id, arg, now,
                             ExpiredAt(cache, cache_id, now), f.res)
        /\ UNCHANGED <<max_size_mb, expiration_minutes, now, walk, snap, connVars, callVars, toolVars>>

NextTool ==
    \/ Store
    \/ Elapse
    \/ FetchCachedResponse

SpecTool == InitTool /\ [][NextTool]_vars

----------------------------------------------------------------------------
(* Properties of receive_full_response *)

\* C11: a complete response document that a single read returns whole comes
\* back as the same bytes however recv cuts it into chunks, down to one
\* byte per read.
C11_FramingRobust ==
    (/\ rx.pc = "done"
     /\ rx.fault = "none"
     /\ rx.sent \in Documents
     /\ AfterChunk(rx.sent) = "return") =>
        rx.res = Bytes(rx.sent)

C13_StreamClose ==
    (rx.pc = "done" /\ rx.fault = "closed") =>
        IF rx.data = "" THEN rx.res = Raised("Exception", ClosedMsg)
        ELSE rx.res = Bytes(rx.data)

\* C14: a call is over once connection_timeout has gone by since it began
\* (it returned, or failed with Timeout or ConnectionClosed), also against a
\* peer that keeps delivering bytes that never make a complete document.
C14_BoundedRead ==
    /\ rx.pc = "reading" => rx.elapsed < connection_timeout
    /\ (rx.pc = "done" /\ rx.fault = "timeout") => rx.res = Raised("Exception", TimeoutMsg)

----------------------------------------------------------------------------
(* Properties of the connection *)

\* the call c was send_command of a general command, or of the keepalive
IsGeneral(c) == c.op = "send_command" /\ c.command_type # "ping"
IsPing(c) == c.op = "send_command" /\ c.command_type = "ping"

\* the call c had a socket once line 127 was passed
GotSocket(c) == c.sock_before # NoSock \/ c.env.connect = "ok"

\* the exception e is the one of line 224
IsCommunicationError(e) ==
    /\ IsError(e)
    /\ e.type = "Exception"
    /\ StartsWith(e.msg, CommunicationFailedMsg \o ": ")

EndsWith(s, suffix) ==
    Len(s) >= Len(suffix) /\ SubSeq(s, Len(s) - Len(suffix) + 1, Len(s)) = suffix

\* C15: a send_command of a general command that fails once it has a socket
\* (sending, reading, decoding) leaves sock empty and raises
\* CommunicationError, and the next send_command on the object starts with
\* connect(), before it writes anything.
C15_DropOnFailure ==
    [][/\ (IsGeneral(lastCall') /\ GotSocket(lastCall') /\ IsError(lastCall'.res)) =>
              /\ sock'[lastCall'.obj] = NoSock
              /\ IsCommunicationError(lastCall'.res)
       /\ (/\ IsGeneral(lastCall) /\ GotSocket(lastCall) /\ IsError(lastCall.res)
           /\ lastCall'.op = "send_command"
           /\ lastCall'.obj = lastCall.obj) =>
              /\ lastCall'.sock_before = NoSock
              /\ lastCall'.steps[1].act = "connect"]_vars

\* a command sent on an object that had lost its socket: connect succeeded,
\* the command was written, the peer broke the connection, and the socket
\* is lost again
C15_Witness ==
    /\ IsGeneral(lastCall)
    /\ lastCall.sock_before = NoSock
    /\ lastCall.steps = <<Step("connect", "ok"),
                          Step("sendall", CommandJson(lastCall.command_type, NoneVal))>>
    /\ lastCall.env.tail = "reset"
    /\ IsCommunicationError(lastCall.res)
    /\ sock[lastCall.obj] = NoSock

\* C16: send_command on an object without a socket calls connect() first;
\* if connect fails, for whatever cause, the object stays without a socket,
\* the call raises NotConnected and writes nothing.
C16_ConnectFailure ==
    (lastCall.op = "send_command" /\ lastCall.sock_before = NoSock) =>
        /\ lastCall.steps[1] = Step("connect", lastCall.env.connect)
        /\ lastCall.env.connect # "ok" =>
              /\ sock[lastCall.obj] = NoSock
              /\ lastCall.res = Raised("ConnectionError", NotConnectedMsg)
              /\ \A i \in DOMAIN lastCall.steps : lastCall.steps[i].act # "sendall"

\* a command sent on an object without a socket while the peer refuses the
\* connection
C16_Witness ==
    /\ IsGeneral(lastCall)
    /\ lastCall.sock_before = NoSock
    /\ lastCall.env.connect = "refused"
    /\ lastCall.res = Raised("ConnectionError", NotConnectedMsg)

\* the whole keepalive reply arrived
GotPong(c) == c.env.send /\ c.env.reply = PongDoc /\ c.env.cut = 0

\* C17: send_command("ping") writes the 4 bytes ping and nothing else, and
\* unless the reply is the keepalive reply it drops the socket and raises
\* ConnectionVerificationFailed.
C17_KeepaliveVerification ==
    (IsPing(lastCall) /\ GotSocket(lastCall)) =>
        /\ lastCall.steps[Len(lastCall.steps)] = Step("sendall", "ping")
        /\ ~GotPong(lastCall) =>
              /\ IsError(lastCall.res)
              /\ lastCall.res.type = "ConnectionError"
              /\ StartsWith(lastCall.res.msg, VerificationFailedMsg)
              /\ sock[lastCall.obj] = NoSock

\* the message a response of status error carries, or the default
RemoteMessage(reply) ==
    CASE reply = ErrorDoc -> "boom"
      [] reply = ErrorMessageDoc -> "bad"
      [] reply = ErrorBareDoc -> UnknownErrorMsg

\* C18: a response of status error makes send_command raise RemoteError
\* with the message of the response (or the default), an exception that is
\* not the one raised for a communication failure or an invalid response.
C18_RemoteError ==
    (/\ IsGeneral(lastCall) /\ GotSocket(lastCall) /\ lastCall.env.send
     /\ lastCall.env.reply \in {ErrorDoc, ErrorMessageDoc, ErrorBareDoc}) =>
        /\ IsError(lastCall.res)
        /\ EndsWith(lastCall.res.msg, RemoteMessage(lastCall.env.reply))
        /\ ~IsCommunicationError(lastCall.res)
        /\ ~StartsWith(lastCall.res.msg, InvalidJsonMsg)

\* a result that is a success object carrying data, estimated at more than
\* 15000 tokens
IsLarge(result) ==
    /\ result.kind = "dict"
    /\ IsTrue(DictGet(result, "success", NoneVal))
    /\ IsTrue(DictGet(result, "data", NoneVal))
    /\ DumpsLen(result) \div 4 > 15000

\* what a successful send_command of the general command c did with the
\* result of the response: a large one was stored under a new id and a
\* reference returned from which get yields the data at once; any other was
\* returned as it is and the cache left alone
Diverted(c, result, before, after, t) ==
    IF IsLarge(result)
    THEN /\ c.res.kind = "reference"
         /\ c.res.success /\ c.res.cached
         /\ c.res.cache_id = c.res.data.cache_id
         /\ c.res.cache_id \notin DOMAIN before.cache
         /\ GetResult(after, c.res.cache_id, t).res = DictGet(result, "data", NoneVal)
    ELSE /\ c.res = result
         /\ after = before

\* C19: a successful response whose result is a success object with data
\* and is estimated at more than 15000 tokens has its data stored in the
\* default cache and a reference returned (success, cached, cache_id equal
\* to data.cache_id), and get on that id at once yields the data; every
\* other successful response has its result returned unchanged and nothing
\* stored.
C19_OversizeDiversion ==
    [][(IsGeneral(lastCall') /\ GotSocket(lastCall') /\ ~IsError(lastCall'.res)) =>
          Diverted(lastCall', Bodies[lastCall'.command_type][lastCall'.env], State,
                   [cache |-> cache', total |-> total'], now')]_vars

\* a response of 15001 estimated tokens was stored and its reference
\* returned
C19_Witness ==
    /\ IsGeneral(lastCall)
    /\ lastCall.env.reply = OverDoc
    /\ lastCall.res.kind = "reference"
    /\ lastCall.res.data.estimated_tokens = 15001
    /\ GetResult(State, lastCall.res.cache_id, now).res = OverA

\* a response of exactly 15000 estimated tokens was returned as it is
C19_WitnessAtThreshold ==
    /\ IsGeneral(lastCall)
    /\ lastCall.env.reply = MidDoc
    /\ lastCall.res = Dict(<<"success", "data">>, <<Bool(TRUE), MidA>>)
    /\ cache = <<>>

\* C20: get_unity_connection returns a connection only after a keepalive
\* probe on it succeeded as the last step of the call; if the probe of the
\* shared connection fails, that connection is disconnected and dropped and
\* a new one is created, connected and probed before it is returned; a call
\* that fails leaves _unity_connection empty.
C20_VerifiedConnection ==
    [][lastCall'.op = "get_unity_connection" =>
        LET c == lastCall'
            n == Len(c.steps)
        IN /\ IF IsError(c.res)
              THEN unity_connection' = 0
              ELSE /\ c.res = Conn(unity_connection')
                   /\ c.steps[n] = GStep("ping", unity_connection', TRUE)
                   /\ sock'[unity_connection'] # NoSock
           /\ (c.shared # 0 /\ c.steps[1] = GStep("ping", c.shared, FALSE)) =>
                 /\ c.steps[2] = GStep("disconnect", c.shared, TRUE)
                 /\ sock'[c.shared] = NoSock
                 /\ unity_connection' # c.shared
                 /\ ~IsError(c.res) =>
                       /\ c.res.obj \notin DOMAIN sock
                       /\ SubSeq(c.steps, 3, n) =
                             <<GStep("new", c.res.obj, TRUE),
                               GStep("connect", c.res.obj, TRUE),
                               GStep("ping", c.res.obj, TRUE)>>]_vars

\* the probe of the shared connection failed and a new connection was
\* handed out
C20_Witness ==
    /\ lastCall.op = "get_unity_connection"
    /\ lastCall.shared # 0
    /\ lastCall.steps[1] = GStep("ping", lastCall.shared, FALSE)
    /\ lastCall.res = Conn(unity_connection)
    /\ unity_connection # lastCall.shared
    /\ sock[lastCall.shared] = NoSock

----------------------------------------------------------------------------
(* Properties of get_page *)

\* a get_page call on an entry held and not expired at its last reading
IsPaged(c, call) ==
    /\ call.op = "get_page"
    /\ LiveAt(c, call.id, call.t)

\* C28: for every live list payload of n >= 1 items and every page p in
\* 1..total_pages, get_page returns a PageResult whose data slice is not
\* empty, with has_next iff p < total_pages, has_previous iff p > 1,
\* items_per_page >= 1, total_pages = ceil(n / items_per_page) and
\* is_complete iff total_pages = 1.
C28_PageFlags ==
    [][(/\ IsPaged(cache, last')
        /\ IsList(cache[last'.id].data)
        /\ Len(cache[last'.id].data.items) >= 1) =>
          /\ last'.res # NoneVal
          /\ last'.arg.page \in 1..last'.res.total_pages =>
                /\ IsList(last'.res.data)
                /\ Len(last'.res.data.items) >= 1
                /\ last'.res.has_next <=> last'.arg.page < last'.res.total_pages
                /\ last'.res.has_previous <=> last'.arg.page > 1
                /\ last'.res.items_per_page >= 1
                /\ (last'.res.total_pages - 1) * last'.res.items_per_page
                      < Len(cache[last'.id].data.items)
                /\ Len(cache[last'.id].data.items)
                      <= last'.res.total_pages * last'.res.items_per_page
                /\ last'.res.is_complete <=> last'.res.total_pages = 1]_vars

\* the last of three pages of a list was fetched
C28_Witness ==
    /\ last.op = "get_page"
    /\ last.res # NoneVal
    /\ IsList(last.res.data)
    /\ last.res.page = 3
    /\ last.res.total_pages = 3
    /\ Len(last.res.data.items) = 1
    /\ ~last.res.has_next
    /\ last.res.has_previous

\* C29: for every live dict payload with at least one list-valued field (of
\* any length, empty included) and every page >= 1, get_page returns as data
\* a copy of the dict in which the first such field holds the page slice,
\* with a '_pagination' marker {field, start_index, end_index}; the stored
\* dict is not modified.
C29_MapPagination ==
    [][(/\ IsPaged(cache, last')
        /\ IsDict(cache[last'.id].data)
        /\ FirstArrayField(cache[last'.id].data) # 0
        /\ last'.arg.page >= 1) =>
          /\ last'.res # NoneVal
          /\ IsDict(last'.res.data)
          /\ \A i \in 1..Len(cache[last'.id].data.keys) :
                i # FirstArrayField(cache[last'.id].data) =>
                    DictGet(last'.res.data, cache[last'.id].data.keys[i], NoneVal)
                        = cache[last'.id].data.vals[i]
          /\ HasKey(last'.res.data, "_pagination")
          /\ LET stored == cache[last'.id].data
                 f == FirstArrayField(stored)
                 m == DictGet(last'.res.data, "_pagination", NoneVal)
             IN /\ m.field = stored.keys[f]
                /\ m.start_index <= m.end_index
                /\ m.end_index <= Len(stored.vals[f].items)
                /\ DictGet(last'.res.data, stored.keys[f], NoneVal)
                      = List(Slice(stored.vals[f].items, m.start_index, m.end_index))
          /\ cache'[last'.id].data = cache[last'.id].data]_vars

\* C30: get_page reports absent only when the id is missing or expired: for
\* every live entry, whatever its payload (empty list, empty dict, a list
\* field of no item), get_page returns a PageResult.
C30_AbsentOnlyWhenMissing ==
    [][(last'.op = "get_page" /\ last'.res = NoneVal) =>
          ~LiveAt(cache, last'.id, last'.t)]_vars

----------------------------------------------------------------------------
(* Properties of reads and of eviction *)

\* the operations that only read: apply_jq_filter counts with cache_result
\* false
IsRead(call) ==
    \/ call.op \in {"get", "get_json_string", "get_page", "get_info", "list_cached"}
    \/ call.op = "apply_jq_filter" /\ ~call.arg.cache_result

\* the ids held and not expired at the reading t
Unexpired(c, t) == {id \in DOMAIN c : ~(t > c[id].expires_at)}

\* the entries unexpired at the reading of the call are held after it with
\* the payload and the size they had, and no entry appears
LiveKept(c1, c2, t) ==
    /\ DOMAIN c2 \subseteq DOMAIN c1
    /\ \A id \in Unexpired(c1, t) :
          /\ id \in DOMAIN c2
          /\ c2[id].data = c1[id].data
          /\ c2[id].json_str = c1[id].json_str
          /\ c2[id].size_bytes = c1[id].size_bytes
          /\ c2[id].expires_at = c1[id].expires_at

\* an entry still unexpired when the step ends is removed only by an add
\* (called directly or by apply_jq_filter storing its result)
RemovedOnlyByAdd ==
    (Unexpired(cache, now') \ DOMAIN cache' # {}) =>
        \/ last'.op = "add"
        \/ last'.op = "apply_jq_filter" /\ last'.arg.cache_result /\ nextId' # nextId

\* C27: the read operations (get, get_json_string, get_page, get_info,
\* list_cached, apply_jq_filter with cache_result false) leave the set of
\* unexpired entries, their payloads, their sizes and _total_size_bytes
\* unchanged; an unexpired entry is removed only by eviction inside an add.
C27_ReadsChangeNothing ==
    [][/\ IsRead(last') => (LiveKept(cache, cache', last'.t) /\ total' = total)
       /\ RemovedOnlyByAdd]_vars

\* C27 (amended): the read operations leave the set of unexpired entries,
\* their payloads and their sizes unchanged, and _total_size_bytes goes down
\* by exactly the sizes of the expired entries the read purges; an unexpired
\* entry is removed only by eviction inside an add.
C27_ReadsKeepLiveEntries ==
    [][/\ IsRead(last') =>
            /\ LiveKept(cache, cache', last'.t)
            /\ total' = total - SumSizes(cache, DOMAIN cache \ DOMAIN cache')
       /\ RemovedOnlyByAdd]_vars

\* a get purged an expired entry while an unexpired one was held, and kept it
C27_Witness ==
    /\ last.op = "get"
    /\ last.expired
    /\ last.id \notin DOMAIN cache
    /\ \E id \in DOMAIN cache : ~(now > cache[id].expires_at) /\ cache[id].size_bytes > 2

\* C26: during an add, unexpired entries are evicted only while
\* _total_size_bytes + newSize exceeds the ceiling and the cache is not
\* empty; every evicted entry is at most as recently used (last_accessed,
\* or created_at when never read) as every entry that survives, and when
\* the new entry fits no unexpired entry is removed.
C26_LruEviction ==
    [][last'.op = "add" =>
          LET unexpired == Unexpired(cache, now)
              evicted == unexpired \ DOMAIN cache'
              kept == unexpired \cap DOMAIN cache'
              new_size == cache'[last'.id].size_bytes
              before == SumSizes(cache, unexpired)
          IN /\ \A e \in evicted, k \in kept :
                    Recency(cache[e]) <= Recency(cache[k])
             /\ before + new_size <= MaxBytes => evicted = {}
             /\ evicted # {} =>
                    \E e \in evicted :
                        before - SumSizes(cache, evicted \ {e}) + new_size > MaxBytes
             /\ \A k \in kept : cache'[k] = cache[k]]_vars

\* the third add evicted the second entry and kept the first, which had
\* been read after the second was stored
C26_Witness ==
    /\ last.op = "add"
    /\ last.id = 3
    /\ expiration_minutes = 1
    /\ DOMAIN cache = {1, 3}
    /\ cache[1].last_accessed > cache[1].created_at

----------------------------------------------------------------------------
(* Properties of fetch_cached_response *)

IsFetch(call, action) ==
    call.op = "fetch_cached_response" /\ call.arg.action = action

\* C23: the 'get' action never returns a payload whose serialized size
\* exceeds 100 KB: for such a live entry it answers success false with the
\* cache id and the pagination and filter suggestions, and it returns the
\* payload only when its size is at most 100 KB.
C23_GetSizeGuard ==
    [][IsFetch(last', "get") =>
          /\ last'.res.success =>
                /\ LiveAt(cache, last'.id, last'.t)
                /\ last'.res.data = cache[last'.id].data
                /\ Utf8Len(Dumps(last'.res.data)) <= 100 * 1024
          /\ (LiveAt(cache, last'.id, last'.t)
                /\ cache[last'.id].size_bytes > 100 * 1024) =>
                /\ ~last'.res.success
                /\ last'.res.message = TooLargeMsg
                /\ last'.res.data.cache_id = last'.id
                /\ last'.res.data.suggestions = {"use_pagination", "use_filter"}]_vars

\* a live entry of 102401 bytes was refused and is still held
C23_Witness ==
    /\ IsFetch(last, "get")
    /\ ~last.res.success
    /\ last.res.message = TooLargeMsg
    /\ last.res.data.size_bytes = 102401
    /\ last.id \in DOMAIN cache

\* an entry of exactly 102400 bytes was returned
C23_WitnessAtLimit ==
    /\ IsFetch(last, "get")
    /\ last.res.success
    /\ last.res.data = AtLimitList

\* the actions that look the cache id up
Lookups == {"info", "get", "get_page", "filter"}

\* C24: fetch_cached_response never raises: for every action, every
\* cache_id (missing, unknown, expired or live) and every filter it returns
\* a result with a success flag and a message; cache misses and filter
\* errors yield success false and leave the cache usable.
C24_NeverRaises ==
    [][last'.op = "fetch_cached_response" =>
          /\ last'.res.kind = "result"
          /\ last'.res.success \in BOOLEAN
          /\ last'.res.message # ""
          /\ (last'.arg.action \in Lookups /\ ~LiveAt(cache, last'.id, last'.t)) =>
                ~last'.res.success
          /\ (/\ IsFetch(last', "filter")
              /\ LiveAt(cache, last'.id, last'.t)
              /\ ~JqAll(last'.arg.jq_filter, cache[last'.id].data).ok) =>
                ~last'.res.success
          /\ ~last'.res.success =>
                /\ total' = SumSizes(cache', DOMAIN cache')
                /\ Unexpired(cache', now') = Unexpired(cache, now)]_vars

----------------------------------------------------------------------------
(* Properties of send_command_to_unity *)

\* C25: every transport failure invalidates the current connection on every
\* code path: after a failed exchange in send_command_to_unity the shared
\* connection has no socket, so that the next use reconnects instead of
\* resuming on a stream in an unknown state.
C25_FailureDisconnects ==
    /\ (lastCall.op = "send_command" /\ GotSocket(lastCall) /\ IsError(lastCall.res)) =>
          sock[lastCall.obj] = NoSock
    /\ (lastCall.op = "send_command_to_unity" /\ lastCall.failed) =>
          /\ unity_connection = lastCall.obj
          /\ sock[lastCall.obj] = NoSock

----------------------------------------------------------------------------
(* Properties of concurrent callers *)

\* no thread is inside a call
Quiet == \A t \in Threads : threads[t].pc \in {"idle", "done", "raised"}

\* C21: when add and get are called concurrently on one ResponseCache, in
\* every interleaving of their statements _total_size_bytes equals the sum
\* of size_bytes over the entries held once the calls are over (no size is
\* subtracted twice, no addition is lost), and no call fails because
\* another caller removed or inserted an entry in the middle of it.
C21_SerializedMutations ==
    /\ Quiet => total = SumSizes(cache, DOMAIN cache)
    /\ \A t \in Threads : threads[t].pc # "raised"

\* C22: in every interleaving of get_cache calls, the calls with the same
\* name return one and the same instance, created on first use and never
\* replaced, so that no stored entry is lost; calls with different names
\* return different instances.
C22_OneInstancePerName ==
    /\ [](\A t1, t2 \in Threads :
            (callers[t1].pc = "done" /\ callers[t2].pc = "done") =>
                (callers[t1].name = callers[t2].name <=> callers[t1].inst = callers[t2].inst))
    /\ [](\A t \in Threads :
            callers[t].stored => cache_instances[callers[t].name] = callers[t].inst)
    /\ [][\A n \in Names :
            cache_instances[n] # NoInst => cache_instances'[n] = cache_instances[n]]_vars

----------------------------------------------------------------------------
(* Properties of the pages get_page reports *)

\* C31: whenever get_page answers page 1 with is_complete true, data is the
\* whole stored payload, also for a dict without a list field that does not
\* fit in one page.
C31_CompleteIsWhole ==
    [][(/\ last'.op = "get_page"
        /\ last'.res # NoneVal
        /\ last'.arg.page = 1
        /\ last'.res.is_complete) =>
          last'.res.data = cache[last'.id].data]_vars

\* C32: for every live list payload and every page number outside
\* 1..total_pages (zero, negative, beyond the last page) the data get_page
\* returns holds no item of the payload.
C32_NoItemOutsideRange ==
    [][(/\ IsPaged(cache, last')
        /\ IsList(cache[last'.id].data)
        /\ last'.res # NoneVal
        /\ last'.arg.page \notin 1..last'.res.total_pages) =>
          /\ IsList(last'.res.data)
          /\ last'.res.data.items = <<>>]_vars

----------------------------------------------------------------------------
(* Properties of the completeness test of receive_full_response *)

\* C33: once every byte of a well-formed response document has been read,
\* receive_full_response has returned those bytes and waits for no more,
\* also for a document whose "content" text holds escaped quotes.
C33_CompleteIsReturned ==
    (rx.sent \in Documents /\ rx.data = rx.sent) =>
        /\ rx.pc = "done"
        /\ rx.res = Bytes(rx.sent)

----------------------------------------------------------------------------
(* Properties of the connection after a remote error *)

\* the peer answered the call c with a whole response of status error
GotRemoteError(c) ==
    /\ IsGeneral(c) /\ GotSocket(c) /\ c.env.send
    /\ c.env.reply \in {ErrorDoc, ErrorMessageDoc, ErrorBareDoc}

\* C36: a whole, well-formed response of status error leaves the object
\* connected when send_command fails, and the next send_command on it uses
\* the socket it has, without calling connect.
C36_RemoteErrorKeepsSocket ==
    [][/\ GotRemoteError(lastCall') =>
              /\ IsError(lastCall'.res)
              /\ sock'[lastCall'.obj] # NoSock
       /\ (/\ GotRemoteError(lastCall)
           /\ lastCall'.op = "send_command"
           /\ lastCall'.obj = lastCall.obj) =>
              /\ lastCall'.sock_before # NoSock
              /\ \A i \in DOMAIN lastCall'.steps : lastCall'.steps[i].act # "connect"]_vars

----------------------------------------------------------------------------
(* Properties of the 'filter' action of fetch_cached_response *)

\* C37: a successful 'filter' reports cached true exactly when
\* apply_jq_filter stored a new entry, and then cache_id is the id of that
\* entry, which is held and not expired; when nothing was stored it reports
\* cached false with the filtered value, whatever it is, in result.
C37_FilterReportsStored ==
    [][(/\ IsFetch(last', "filter")
        /\ last'.res.success) =>
          LET new == DOMAIN cache' \ DOMAIN cache
          IN /\ last'.res.data.cached <=> new # {}
             /\ new # {} =>
                   /\ \E id \in new : last'.res.data.cache_id = UuidStr(id)
                   /\ \A id \in new : LiveAt(cache', id, last'.t)
             /\ new = {} =>
                   last'.res.data.result
                      = Unwrap(JqAll(last'.arg.jq_filter, cache[last'.id].data).results)]_vars

----------------------------------------------------------------------------
(* One connection object used by one caller, call after call: the sockets
   it creates and closes, and the bytes of the peer that a call leaves
   unread on its socket for the next call *)

\* sockets created and not closed
MaxSockets == 3

\* bytes left unread on a socket
MaxUnread == 90

\* the sockets a call created: one for each connect that found sock empty
\* ("self.sock = socket.socket(...)", line 38)
Connects(steps) == Cardinality({i \in DOMAIN steps : steps[i].act = "connect"})

\* the sockets disconnect closes: the one sock holds, if any (lines 60-66)
Closes(cur) == IF cur # NoSock THEN 1 ELSE 0

\* a keepalive reply with another whole response behind it
PongThenOk == PongDoc \o OkDoc

\* what the peer sends in reply to a request
WireReplies(command_type) ==
    IF command_type = "ping" THEN {PongDoc, PongThenOk} ELSE {OkDoc, SmallDoc, ErrorDoc}

\* the surroundings of a call on the object: cut is the place where the first
\* recv ends among the bytes on the socket (0: it returns them all)
WireEnvs(cur, unread, command_type) ==
    {Env("ok", TRUE, d, c, "timeout") :
        d \in WireReplies(command_type), c \in {0, Len(PongDoc), Len(unread)}}
        \cup {Env("ok", TRUE, "", 0, t) : t \in Tails}
        \cup {Env("ok", FALSE, "", 0, "timeout")}
        \cup (IF cur = NoSock THEN ConnectFailures ELSE {})

\* the surroundings with, before the reply, the bytes an earlier call left
\* unread on the socket the object still holds
Arrived(cur, unread, env) ==
    [env EXCEPT !.reply = (IF cur # NoSock THEN unread ELSE "") \o env.reply]

\* the bytes receive_full_response took from the socket: it calls recv until
\* a chunk ends the loop (lines 75-117) and leaves the rest where it is
Taken(env) ==
    IF env.connect # "ok" \/ ~env.send \/ ChunksOf(env) = <<>> THEN ""
    ELSE IF Len(ChunksOf(env)) = 1 \/ AfterChunk(ChunksOf(env)[1]) # "continue"
    THEN ChunksOf(env)[1]
    ELSE env.reply

\* the body of send_command in the surroundings env
WireBody(command_type, env) ==
    IF command_type = "ping" THEN PingBody(env) ELSE CommandBody(env)

InitWire ==
    /\ DefaultCache
    /\ stream = ""
    /\ rx = NoCall
    /\ sock = <<NoSock>>
    /\ unity_connection = 0
    /\ lastCall = NoCallYet

\* connect() called on the object
ConnectCall ==
    \E outcome \in ConnectOutcomes :
      \E c \in {ConnectResult(sock[1], outcome)} :
        /\ unclosed + Connects(c.steps) <= MaxSockets
        /\ sock' = [sock EXCEPT ![1] = c.sock]
        /\ unclosed' = unclosed + Connects(c.steps)
        /\ stream' = IF Connects(c.steps) > 0 THEN "" ELSE stream
        /\ lastCall' = [op |-> "connect", obj |-> 1, sock_before |-> sock[1],
                        steps |-> c.steps, res |-> Bool(c.ok)]
        /\ UNCHANGED <<reload, callVars, cacheVars, rx, unity_connection>>

\* disconnect() called on the object
DisconnectCall ==
    /\ sock' = [sock EXCEPT ![1] = DisconnectResult(sock[1])]
    /\ unclosed' = unclosed - Closes(sock[1])
    /\ stream' = ""
    /\ lastCall' = [op |-> "disconnect", obj |-> 1, sock_before |-> sock[1],
                    steps |-> <<>>, res |-> NoneVal]
    /\ UNCHANGED <<reload, callVars, cacheVars, rx, unity_connection>>

\* send_command called on the object: the peer replies to the request, and
\* what the call does not read stays on the socket if the object keeps it
SendOnWire ==
    \E command_type \in CommandTypes :
      \E e \in WireEnvs(sock[1], stream, command_type) :
        \E env \in {Arrived(sock[1], stream, e)} :
          \E s \in {SendCommandOutcome(ConnectResult(sock[1], env.connect),
                                       WireBody(command_type, env), command_type, NoneVal,
                                       State, nextId, <<now, now>>,
                                       max_size_mb, expiration_minutes)} :
               /\ unclosed + Connects(s.steps) <= MaxSockets
               /\ Len(env.reply) - Len(Taken(env)) <= MaxUnread
               /\ s.cached => nextId <= MaxStored
               /\ sock' = [sock EXCEPT ![1] = s.sock]
               /\ unclosed' = unclosed + Connects(s.steps)
               /\ stream' = IF s.sock = NoSock THEN ""
                            ELSE From(env.reply, Len(Taken(env)))
               /\ cache' = s.st.cache
               /\ total' = s.st.total
               /\ nextId' = IF s.cached THEN nextId + 1 ELSE nextId
               /\ lastCall' = [op |-> "send_command", obj |-> 1,
                               command_type |-> command_type,
                               sock_before |-> sock[1], env |-> e,
                               steps |-> s.steps, res |-> s.res,
                               unread |-> IF sock[1] # NoSock THEN stream ELSE "",
                               read |-> Taken(env)]
               /\ UNCHANGED <<reload, callVars, max_size_mb, expiration_minutes, now, last,
                              walk, snap, rx, unity_connection>>

NextWire ==
    \/ ConnectCall
    \/ DisconnectCall
    \/ SendOnWire

SpecWire == InitWire /\ [][NextWire]_vars

----------------------------------------------------------------------------
(* Properties of the wire *)

\* C34: a send_command reads only bytes the peer sent in reply to it: the
\* socket holds no byte left from an earlier reply when the call reads, and
\* what the call reads is the beginning of its own reply.
C34_OwnReplyOnly ==
    [][(lastCall'.op = "send_command" /\ lastCall'.read # "") =>
          /\ lastCall'.unread = ""
          /\ lastCall'.read = Upto(lastCall'.env.reply, Len(lastCall'.read))]_vars

\* C35: every socket created and not closed is the sock of the connection
\* object.
C35_NoSocketLeak ==
    unclosed = Cardinality({o \in DOMAIN sock : sock[o] # NoSock})

----------------------------------------------------------------------------
(* trigger_domain_reload with wait_for_completion: the job is started, then
   its status is asked for until it is no longer running or the waits add
   up to timeout.  Time is counted in half seconds.  A call of send_command
   made by a poll is followed read by read: the peer may go on delivering
   bytes that complete no document. *)

\* poll_interval = 0.5
PollInterval == 1

\* time.sleep(2) after a poll that raised
RetryWait == 4

\* the values of timeout: 1, 2.5 and 4 seconds
Timeouts == {2, 5, 8}

\* chunks of one poll are counted up to MaxChunks, then from 1 again
MaxChunks == 2

StartedDoc == "{\"status\":\"success\",\"result\":{\"success\":true,\"data\":{\"jobId\":\"j1\"}}}"
NoJobDoc == "{\"status\":\"success\",\"result\":{\"success\":true,\"data\":{}}}"
RunningDoc == "{\"status\":\"success\",\"result\":{\"success\":true,\"data\":{\"status\":\"running\"}}}"
CompletedDoc == "{\"status\":\"success\",\"result\":{\"success\":true,\"data\":{\"status\":\"completed\",\"logs\":\"ok\"}}}"

\* what the peer answers to the request that starts the job, and to a poll
StartReplies == {StartedDoc, NoJobDoc, FailedDoc, OkDoc, ErrorDoc}
PollReplies == {RunningDoc, CompletedDoc, FailedDoc, ErrorDoc}

\* the surroundings of a send_command of the tool on an object whose sock
\* is cur
ReloadEnvs(cur, replies) ==
    {Env("ok", TRUE, d, 0, "timeout") : d \in replies}
        \cup {Env("ok", TRUE, "", 0, t) : t \in Tails}
        \cup {Env("ok", FALSE, "", 0, "timeout")}
        \cup (IF cur = NoSock THEN ConnectFailures ELSE {})

\* the surroundings of the probes of get_unity_connection
ReloadPings ==
    {Env("ok", TRUE, PongDoc, 0, "timeout"), Env("ok", TRUE, "", 0, "timeout"),
     Env("refused", TRUE, "", 0, "timeout")}

\* what get_unity_connection can give
Handouts(shared, socks) ==
    {GetUnityConnectionResult(shared, socks, env1, outcome, env2) :
        env1 \in ReloadPings, outcome \in {"ok", "refused"}, env2 \in ReloadPings}

\* the sock of the object the variable 'connection' of the tool names after
\* "connection = get_unity_connection()" gave g: the object handed out, or
\* the one it named before when the call raised
HeldSock(g) ==
    IF g.slot # 0 THEN <<g.socks[g.slot]>>
    ELSE IF 1 \in DOMAIN g.socks THEN <<g.socks[1]>> ELSE <<>>

\* a number of seconds, kept in half seconds
Seconds(halves) == [kind |-> "seconds", halves |-> halves]

\* the results of lines 73-77, 84-88, 216-220 and 224-228
ReloadFailure(error, message) ==
    Dict(<<"success", "error", "message">>, <<Bool(FALSE), error, message>>)

\* the result of lines 155-161
TimeoutResult(rl) ==
    Dict(<<"success", "status", "duration", "message", "job_id">>,
         <<Bool(FALSE), Text("timeout"), Seconds(rl.elapsed),
           [kind |-> "timed_out_after", timeout |-> Seconds(rl.timeout)], rl.job_id>>)

\* the fields of the status copied when present (lines 142-149)
OptionalFields ==
    <<<<"compilationErrors", "compilation_errors">>, <<"logs", "logs">>,
      <<"wasCompiling", "was_already_compiling">>, <<"hadToRefresh", "had_to_refresh">>>>

\* the result of lines 134-152 for the status of a job that is over
StatusResponse(status_data, job_status, elapsed) ==
    LET present == SelectSeq(OptionalFields,
                             LAMBDA p : \E i \in DOMAIN status_data.keys : status_data.keys[i] = p[1])
    IN Dict(<<"success", "status", "duration", "message">>
                \o [i \in 1..Len(present) |-> present[i][2]],
            <<DictGet(status_data, "compilationSucceeded", Bool(TRUE)), job_status,
              DictGet(status_data, "duration", Seconds(elapsed)),
              DictGet(status_data, "message", Text(""))>>
                \o [i \in 1..Len(present) |-> DictGet(status_data, present[i][1], NoneVal)])

\* what an exception does that leaves the try of the tool (lines 215-228)
ReloadRaised(e) ==
    IF e.type = "ConnectionError"
    THEN ReloadFailure(Text("Unity connection error: " \o e.msg),
                       Text("Failed to connect to Unity Editor"))
    ELSE ReloadFailure(Text(e.msg), Text("An unexpected error occurred"))

\* lines 72-94 on the result of the request that starts the job
Started(rl, result) ==
    IF IsError(result) THEN [rl EXCEPT !.pc = "done", !.res = ReloadRaised(result)]
    ELSE IF result.kind # "dict"
    THEN [rl EXCEPT !.pc = "done", !.res = ReloadRaised(Raised("AttributeError", NoGetMsg))]
    ELSE IF ~IsTrue(DictGet(result, "success", Bool(FALSE)))
    THEN [rl EXCEPT !.pc = "done",
                    !.res = ReloadFailure(DictGet(result, "error", Text("Unknown error occurred")),
                                          DictGet(result, "message", Text("Failed to trigger domain reload")))]
    ELSE IF DictGet(result, "data", EmptyDict).kind # "dict"
    THEN [rl EXCEPT !.pc = "done", !.res = ReloadRaised(Raised("AttributeError", NoGetMsg))]
    ELSE IF ~IsTrue(DictGet(DictGet(result, "data", EmptyDict), "jobId", NoneVal))
    THEN [rl EXCEPT !.pc = "done",
                    !.res = ReloadFailure(Text("No job ID returned from Unity"),
                                          Text("Failed to start domain reload job"))]
    ELSE [rl EXCEPT !.pc = "loop", !.elapsed = 0,
                    !.job_id = DictGet(DictGet(result, "data", EmptyDict), "jobId", NoneVal)]

\* lines 109-152 on what the send_command of a poll returned or raised
Polled(rl, status_result) ==
    IF IsError(status_result)
    THEN [rl EXCEPT !.pc = "loop", !.elapsed = @ + RetryWait, !.chunks = 0]
    ELSE IF status_result.kind # "dict"
    THEN [rl EXCEPT !.pc = "done", !.chunks = 0,
                    !.res = ReloadRaised(Raised("AttributeError", NoGetMsg))]
    ELSE IF ~IsTrue(DictGet(status_result, "success", Bool(FALSE)))
    THEN [rl EXCEPT !.pc = "loop", !.chunks = 0]
    ELSE IF DictGet(status_result, "data", EmptyDict).kind # "dict"
    THEN [rl EXCEPT !.pc = "done", !.chunks = 0,
                    !.res = ReloadRaised(Raised("AttributeError", NoGetMsg))]
    ELSE IF DictGet(DictGet(status_result, "data", EmptyDict), "status", Text("unknown")) # Text("running")
    THEN [rl EXCEPT !.pc = "done", !.chunks = 0,
                    !.res = StatusResponse(DictGet(status_result, "data", EmptyDict),
                                           DictGet(DictGet(status_result, "data", EmptyDict),
                                                   "status", Text("unknown")),
                                           rl.elapsed)]
    ELSE [rl EXCEPT !.pc = "loop", !.chunks = 0]

\* send_command("trigger_domain_reload", ...) of the tool in the
\* surroundings env
ReloadSend(env) ==
    SendCommandOutcome(ConnectResult(IF sock = <<>> THEN NoSock ELSE sock[1], env.connect),
                       CommandBody(env), "trigger_domain_reload", NoneVal,
                       State, nextId, <<now, now>>, max_size_mb, expiration_minutes)

InitReload == InitConn

\* lines 48-94: the call obtains the connection and starts the job
ReloadCall ==
    \E timeout \in Timeouts :
      \E g \in Handouts(unity_connection, sock) :
        /\ reload.pc = "idle"
        /\ unity_connection' = (IF g.slot = 0 THEN 0 ELSE 1)
        /\ IF IsError(g.res)
           THEN /\ sock' = HeldSock(g)
                /\ reload' = [reload EXCEPT !.pc = "done", !.timeout = timeout,
                                            !.res = ReloadRaised(g.res)]
                /\ UNCHANGED <<cache, total, nextId>>
           ELSE \E env \in ReloadEnvs(HeldSock(g)[1], StartReplies) :
                  \E s \in {SendCommandOutcome(ConnectResult(HeldSock(g)[1], env.connect),
                                               CommandBody(env), "trigger_domain_reload",
                                               NoneVal, State, nextId, <<now, now>>,
                                               max_size_mb, expiration_minutes)} :
                       /\ sock' = <<s.sock>>
                       /\ reload' = Started([reload EXCEPT !.timeout = timeout], s.res)
                       /\ cache' = s.st.cache
                       /\ total' = s.st.total
                       /\ nextId' = IF s.cached THEN nextId + 1 ELSE nextId
        /\ UNCHANGED <<unclosed, callVars, max_size_mb, expiration_minutes, now, last,
                       walk, snap, stream, rx, lastCall>>

\* lines 96-108: the wait before a poll, and the poll entered
PollBegin ==
    /\ reload.pc = "loop"
    /\ reload.elapsed < reload.timeout
    /\ reload' = [reload EXCEPT !.pc = "polling", !.elapsed = @ + PollInterval]
    /\ UNCHANGED <<unclosed, callVars, cacheVars, connVars>>

\* a recv of the poll returns bytes with which the bytes read so far are no
\* complete document: receive_full_response goes on reading
PollMoreBytes ==
    /\ reload.pc = "polling"
    /\ sock # <<>> /\ sock[1] # NoSock
    /\ reload' = [reload EXCEPT !.chunks = (@ % MaxChunks) + 1]
    /\ UNCHANGED <<unclosed, callVars, cacheVars, connVars>>

\* the send_command of the poll ends, and lines 109-152 act on what it
\* returned or raised: after an exception the tool waits and asks for the
\* connection again
PollEnd ==
    /\ reload.pc = "polling"
    /\ \E env \in ReloadEnvs(sock[1], PollReplies) :
      \E s \in {ReloadSend(env)} :
        /\ reload.chunks > 0 => env.connect = "ok" /\ env.send
        /\ reload' = Polled(reload, s.res)
        /\ cache' = s.st.cache
        /\ total' = s.st.total
        /\ nextId' = IF s.cached THEN nextId + 1 ELSE nextId
        /\ IF IsError(s.res)
           THEN \E g \in Handouts(unity_connection, <<s.sock>>) :
                  /\ sock' = HeldSock(g)
                  /\ unity_connection' = (IF g.slot = 0 THEN 0 ELSE 1)
           ELSE /\ sock' = <<s.sock>>
                /\ UNCHANGED unity_connection
        /\ UNCHANGED <<unclosed, callVars, max_size_mb, expiration_minutes, now, last,
                       walk, snap, stream, rx, lastCall>>

\* lines 155-161: the waits add up to timeout
PollTimeout ==
    /\ reload.pc = "loop"
    /\ reload.elapsed >= reload.timeout
    /\ reload' = [reload EXCEPT !.pc = "done", !.res = TimeoutResult(reload)]
    /\ UNCHANGED <<unclosed, callVars, cacheVars, connVars>>

NextReload ==
    \/ ReloadCall
    \/ PollBegin
    \/ PollMoreBytes
    \/ PollEnd
    \/ PollTimeout

SpecReload == InitReload /\ [][NextReload]_vars

\* the tool runs on: a step it can take is taken
FairReload == SpecReload /\ WF_vars(NextReload)

----------------------------------------------------------------------------
(* Properties of the polling of trigger_domain_reload *)

\* C38: a call of trigger_domain_reload that waits for completion returns,
\* whatever the peer does.
C38_ReloadReturns == (reload.pc # "idle") ~> (reload.pc = "done")

----------------------------------------------------------------------------
(* manage_scene: the command is sent on the connection get_unity_connection
   gives; a hierarchy found too large is asked for again with less depth,
   and a payload still too large is stored in the default cache *)

\* "estimated_tokens > 20000"
SceneTokenLimit == 20000

\* "size_kb > 50"
SceneKbLimit == 50

\* "max_depth or 10"
DefaultDepth == 10

HierarchyDoc == "{\"status\":\"success\",\"result\":{\"success\":true,\"data\":{\"sceneName\":\"Main\",\"hierarchy\":A}}}"
NearDoc == "{\"status\":\"success\",\"result\":{\"success\":true,\"data\":{\"sceneName\":\"Main\",\"hierarchy\":N}}}"
LeanDoc == "{\"status\":\"success\",\"result\":{\"success\":true,\"data\":{\"sceneName\":\"Main\",\"hierarchy\":\"x\"}}}"

\* what the peer answers to manage_scene
SceneReplies == {HierarchyDoc, NearDoc, LeanDoc, FailedDoc, ErrorDoc}

\* the arguments of a call (max_depth None is NoInt)
SceneArgs ==
    [action : {"get_hierarchy"}, max_depth : {NoInt, 1, 3},
     include_components : BOOLEAN, auto_adjust_depth : {TRUE}]
        \cup [action : {"get_hierarchy", "get_active"}, max_depth : {NoInt},
              include_components : {TRUE}, auto_adjust_depth : BOOLEAN]

\* the params sent, None values dropped (lines 50-65); the arguments left at
\* their defaults are not listed
SceneParams(args) ==
    [action |-> args.action, maxDepth |-> args.max_depth,
     includeComponents |-> args.include_components,
     autoAdjustDepth |-> args.auto_adjust_depth]

\* the surroundings of a send_command of the tool
SceneEnvs ==
    {Env("ok", TRUE, d, 0, "timeout") : d \in SceneReplies}
        \cup {Env("ok", TRUE, "", 0, "closed"), Env("ok", FALSE, "", 0, "timeout")}

\* what send_command makes of the answer in each of them
SceneBodies == [env \in SceneEnvs \cup {NoEnv} |-> CommandBody(env)]

\* the surroundings of one "get_unity_connection().send_command(...)" made
\* when _unity_connection is shared and the sock of every object is socks:
\* those of the probes and of connect, each drawn only where the call gets
\* there, and those of the command
SceneLucks(shared, socks) ==
    [probe : IF shared = 0 THEN {NoEnv}
             ELSE IF socks[shared] # NoSock THEN ReloadPings \ ConnectFailures
             ELSE ReloadPings,
     outcome : {"ok", "refused"},
     probe2 : {Env("ok", TRUE, PongDoc, 0, "timeout")},
     env : SceneEnvs]

NoLuck ==
    [probe |-> NoEnv, outcome |-> "ok", probe2 |-> NoEnv, env |-> NoEnv]

DigitValue(c) == CHOOSE d \in 0..9 : Ch("0123456789", d + 1) = c

RECURSIVE IntOf(_)
\* the int a JSON number without sign, fraction and exponent stands for
IntOf(s) ==
    IF s = "" THEN 0 ELSE 10 * IntOf(Upto(s, Len(s) - 1)) + DigitValue(Ch(s, Len(s)))

\* "len(json.dumps(data)) // 4"
DataTokens(data) == DumpsLen(data) \div 4

\* the command was sent and send_command gave s
SceneAnswered(c, params, h, s) ==
    [socks |-> WithSock(h.socks, h.slot, s.sock), shared |-> h.slot, st |-> s.st,
     next |-> IF s.cached THEN c.next + 1 ELSE c.next,
     sends |-> Append(c.sends, params), res |-> s.res]

\* get_unity_connection gave h
SceneSent(c, params, env, h) ==
    IF IsError(h.res) THEN [c EXCEPT !.socks = h.socks, !.shared = h.slot, !.res = h.res]
    ELSE SceneAnswered(c, params, h,
                       SendCommandOutcome(ConnectResult(h.socks[h.slot], env.connect),
                                          SceneBodies[env], "manage_scene", params,
                                          c.st, c.next, <<now, now>>,
                                          max_size_mb, expiration_minutes))

\* get_unity_connection().send_command("manage_scene", params) in the state
\* c of the call: the sock of every object, _unity_connection, the default
\* cache, the next uuid4 value, the params sent so far, and the value
\* returned or raised
SceneSend(c, params, luck) ==
    SceneSent(c, params, luck.env,
              GetUnityConnectionResult(c.shared, c.socks, luck.probe, luck.outcome, luck.probe2))

\* line 212
PythonError(e) ==
    Dict(<<"success", "message">>,
         <<Bool(FALSE), Text("Python error managing scene: " \o e.msg)>>)

\* line 209
SceneFailure(response) ==
    Dict(<<"success", "message">>,
         <<Bool(FALSE),
           DictGet(response, "error", Text("An unknown error occurred during scene management."))>>)

\* lines 73-81: the reference send_command returned, with the examples
WithExamples(response) ==
    [kind |-> "reference", success |-> TRUE, cached |-> TRUE,
     cache_id |-> response.cache_id,
     data |-> [cache_id |-> response.data.cache_id, size_kb |-> response.data.size_kb,
               estimated_tokens |-> response.data.estimated_tokens,
               example_filters |-> response.cache_id]]

\* lines 110-117 and 128-135: the result of a retry that fits
Adjusted(new_depth, components_off, retry_data, estimated_tokens, retry_tokens) ==
    [kind |-> "adjusted", success |-> TRUE, depth |-> new_depth,
     components_off |-> components_off, data |-> retry_data, auto_adjusted |-> TRUE,
     original_tokens |-> estimated_tokens, adjusted_tokens |-> retry_tokens]

\* the data of a retry and its estimated tokens (lines 104-107, 124-126)
RetryData(retry_response) ==
    IF retry_response.kind = "reference" THEN retry_response.data
    ELSE DictGet(retry_response, "data", NoneVal)

RetryTokens(retry_response) ==
    IF retry_response.kind = "reference" THEN 0 ELSE DataTokens(RetryData(retry_response))

\* "if retry_response.get('success')" and "retry_tokens <= 20000"
RetryFits(retry_response) ==
    /\ ~IsError(retry_response)
    /\ \/ retry_response.kind = "reference"
       \/ /\ retry_response.kind = "dict"
          /\ IsTrue(DictGet(retry_response, "success", NoneVal))
          /\ RetryTokens(retry_response) <= SceneTokenLimit

\* the metadata and the result of lines 139-178
SceneMeta(args, data, estimated_tokens) ==
    [tool |-> "manage_scene", action |-> args.action,
     scene_name |-> DictGet(data, "sceneName", Text("unknown")),
     total_objects |-> DictGet(data, "totalObjectsInScene", Text("unknown")),
     estimated_tokens |-> estimated_tokens,
     source_cache_id |-> 0, jq_filter |-> "", filtered_from |-> ""]

SceneReference(cache_id, data, data_len) ==
    [kind |-> "reference", success |-> TRUE, cached |-> TRUE, cache_id |-> cache_id,
     data |-> [scene_name |-> DictGet(data, "sceneName", Text("unknown")),
               total_objects |-> DictGet(data, "totalObjectsInScene", Text("unknown")),
               estimated_tokens |-> data_len \div 4, size_kb |-> data_len \div 1024,
               example_filters |-> cache_id]]

\* lines 139-178: the hierarchy is stored and a reference returned
SceneCached(args, c, data) ==
    [c EXCEPT !.st = AddEntry(c.st, c.next, data, SceneMeta(args, data, DataTokens(data)),
                              <<now, now>>, max_size_mb, expiration_minutes),
              !.next = c.next + 1,
              !.res = SceneReference(c.next, data, DumpsLen(data))]

\* lines 181-205: the data of another action is stored when above 50 KB
OtherCached(args, c, response, data) ==
    [c EXCEPT !.st = AddEntry(c.st, c.next, data,
                              [tool |-> "manage_scene", action |-> args.action,
                               size_kb |-> DumpsLen(data) \div 1024,
                               source_cache_id |-> 0, jq_filter |-> "", filtered_from |-> ""],
                              <<now, now>>, max_size_mb, expiration_minutes),
              !.next = c.next + 1,
              !.res = [kind |-> "reference", success |-> TRUE, cached |-> TRUE,
                       cache_id |-> c.next,
                       message |-> DictGet(response, "message", Text("Scene operation successful.")),
                       data |-> [summary |-> DictGet(data, "summary", Text("Data cached due to size")),
                                 size_kb |-> DumpsLen(data) \div 1024, cache_id |-> c.next]]]

\* lines 139-207: what is returned when no retry fitted
SceneFallback(args, c, response, data) ==
    IF args.action = "get_hierarchy" /\ IsTrue(data) /\ DataTokens(data) > SceneTokenLimit
    THEN IF data.kind # "dict" THEN [c EXCEPT !.res = PythonError(Raised("AttributeError", NoGetMsg))]
         ELSE SceneCached(args, c, data)
    ELSE IF IsTrue(data) /\ args.action \in {"get_build_settings", "get_active"}
            /\ DumpsLen(data) \div 1024 > SceneKbLimit
    THEN IF data.kind # "dict" THEN [c EXCEPT !.res = PythonError(Raised("AttributeError", NoGetMsg))]
         ELSE OtherCached(args, c, response, data)
    ELSE [c EXCEPT !.res = Dict(<<"success", "message", "data">>,
                                <<Bool(TRUE),
                                  DictGet(response, "message", Text("Scene operation successful.")),
                                  data>>)]

\* "data.get('maxDepth', max_depth or 10)"
CurrentDepth(args, data) ==
    IF DictGet(data, "maxDepth", NoneVal) # NoneVal
    THEN IntOf(DictGet(data, "maxDepth", NoneVal).digits)
    ELSE IF args.max_depth \notin {NoInt, 0} THEN args.max_depth ELSE DefaultDepth

\* the test of line 94: the hierarchy is too large and the depth may be reduced
TooLargeToReturn(args, data) ==
    /\ args.action = "get_hierarchy"
    /\ IsTrue(data)
    /\ args.auto_adjust_depth
    /\ DataTokens(data) > SceneTokenLimit
    /\ args.max_depth = NoInt \/ args.max_depth > 1

\* the response of the first send makes the tool send the command again
Retries(args, response) ==
    /\ ~IsError(response)
    /\ response.kind = "dict"
    /\ IsTrue(DictGet(response, "success", NoneVal))
    /\ ~IsTrue(DictGet(response, "cached", NoneVal))
    /\ TooLargeToReturn(args, DictGet(response, "data", NoneVal))
    /\ DictGet(response, "data", NoneVal).kind = "dict"
    /\ CurrentDepth(args, DictGet(response, "data", NoneVal)) > 1

\* lines 120-136: the retry with reduced depth, c2 being the state after it
SecondRetry(args, c2, response, data, new_depth, components_off) ==
    IF IsError(c2.res) THEN [c2 EXCEPT !.res = PythonError(c2.res)]
    ELSE IF RetryFits(c2.res)
    THEN [c2 EXCEPT !.res = Adjusted(new_depth, components_off, RetryData(c2.res),
                                     DataTokens(data), RetryTokens(c2.res))]
    ELSE SceneFallback(args, c2, response, data)

\* lines 100-136: the retry without components, c1 being the state after
\* it, then the retry with reduced depth
FirstRetry(args, c1, response, data, new_depth, luck3) ==
    IF IsError(c1.res) THEN [c1 EXCEPT !.res = PythonError(c1.res)]
    ELSE IF RetryFits(c1.res)
    THEN [c1 EXCEPT !.res = Adjusted(new_depth, TRUE, RetryData(c1.res),
                                     DataTokens(data), RetryTokens(c1.res))]
    ELSE SecondRetry(args, SceneSend(c1, [SceneParams(args) EXCEPT !.maxDepth = new_depth,
                                                                     !.includeComponents = FALSE],
                                     luck3),
                     response, data, new_depth, TRUE)

\* lines 95-136
SceneRetry(args, c, response, data, new_depth, luck2, luck3) ==
    IF args.include_components
    THEN FirstRetry(args, SceneSend(c, [SceneParams(args) EXCEPT !.maxDepth = new_depth,
                                                                   !.includeComponents = FALSE],
                                    luck2),
                    response, data, new_depth, luck3)
    ELSE SecondRetry(args, SceneSend(c, [SceneParams(args) EXCEPT !.maxDepth = new_depth], luck3),
                     response, data, new_depth, FALSE)

\* lines 71-212 on the state c after the first send
SceneHandled(args, c, luck2, luck3) ==
    IF IsError(c.res) THEN [c EXCEPT !.res = PythonError(c.res)]
    ELSE IF c.res.kind = "reference" THEN [c EXCEPT !.res = WithExamples(c.res)]
    ELSE IF c.res.kind # "dict"
    THEN [c EXCEPT !.res = PythonError(Raised("AttributeError", NoGetMsg))]
    ELSE IF ~IsTrue(DictGet(c.res, "success", NoneVal))
    THEN [c EXCEPT !.res = SceneFailure(c.res)]
    ELSE IF IsTrue(DictGet(c.res, "cached", NoneVal))
    THEN [c EXCEPT !.res = c.res]
    ELSE IF TooLargeToReturn(args, DictGet(c.res, "data", NoneVal))
            /\ DictGet(c.res, "data", NoneVal).kind # "dict"
    THEN [c EXCEPT !.res = PythonError(Raised("AttributeError", NoGetMsg))]
    ELSE IF Retries(args, c.res)
    THEN SceneRetry(args, c, c.res, DictGet(c.res, "data", NoneVal),
                    Max(1, CurrentDepth(args, DictGet(c.res, "data", NoneVal)) - 1),
                    luck2, luck3)
    ELSE SceneFallback(args, c, c.res, DictGet(c.res, "data", NoneVal))

\* the estimated tokens of the data of the peer's answer, 0 when the answer
\* is no success or holds no data
AnsweredTokens(body) ==
    IF IsError(body) \/ body.kind # "dict" THEN 0
    ELSE IF ~IsTrue(DictGet(body, "success", NoneVal)) THEN 0
    ELSE IF ~IsTrue(DictGet(body, "data", NoneVal)) THEN 0
    ELSE DataTokens(DictGet(body, "data", NoneVal))

InitScene == InitConn

\* manage_scene called; calls are followed until MaxStored payloads are stored
ManageScene ==
    \E args \in SceneArgs, luck1 \in SceneLucks(unity_connection, sock) :
      \E c1 \in {SceneSend([socks |-> sock, shared |-> unity_connection, st |-> State,
                            next |-> nextId, sends |-> <<>>, res |-> NoneVal],
                           SceneParams(args), luck1)} :
        \E luck2 \in IF Retries(args, c1.res) /\ args.include_components
                     THEN SceneLucks(c1.shared, c1.socks) ELSE {NoLuck} :
          \E luck3 \in IF Retries(args, c1.res)
                       THEN SceneLucks(c1.shared, c1.socks) ELSE {NoLuck} :
            \E c \in {SceneHandled(args, c1, luck2, luck3)} :
              /\ nextId <= MaxStored
              /\ Cardinality(DOMAIN c.socks) <= MaxConns
              /\ sock' = c.socks
              /\ unity_connection' = c.shared
              /\ cache' = c.st.cache
              /\ total' = c.st.total
              /\ nextId' = c.next
              /\ lastCall' = [op |-> "manage_scene", args |-> args, sends |-> c.sends,
                              answered_tokens |-> AnsweredTokens(SceneBodies[luck1.env]),
                              reached |-> Len(c1.sends) = 1,
                              stored |-> c.next - nextId, res |-> c.res]
              /\ UNCHANGED <<toolVars, callVars, max_size_mb, expiration_minutes, now, last,
                             walk, snap, stream, rx>>

\* the connection is lost between two calls
SceneDisconnect ==
    /\ unity_connection # 0
    /\ sock[unity_connection] # NoSock
    /\ sock' = [sock EXCEPT ![unity_connection] = NoSock]
    /\ lastCall' = [op |-> "lost"]
    /\ UNCHANGED <<toolVars, callVars, cacheVars, stream, rx, unity_connection>>

NextScene ==
    \/ ManageScene
    \/ SceneDisconnect

SpecScene == InitScene /\ [][NextScene]_vars

----------------------------------------------------------------------------
(* Properties of the depth adjustment of manage_scene *)

\* C39: a call of manage_scene for the hierarchy, with auto_adjust_depth
\* and max_depth unset or above 1, whose command was answered with success
\* and data of more than 20000 estimated tokens sends the command again
\* with the depth reduced (and, if components were asked for, without
\* them) before it returns a reference to stored data.
C39_RetryBeforeCaching ==
    [][(/\ lastCall'.op = "manage_scene"
        /\ lastCall'.reached
        /\ lastCall'.args.action = "get_hierarchy"
        /\ lastCall'.args.auto_adjust_depth
        /\ lastCall'.args.max_depth = NoInt \/ lastCall'.args.max_depth > 1
        /\ lastCall'.answered_tokens > SceneTokenLimit)
       => /\ Len(lastCall'.sends) >= 2
          /\ lastCall'.sends[2].maxDepth >= 1
          /\ lastCall'.sends[2].maxDepth # lastCall'.sends[1].maxDepth
          /\ lastCall'.args.include_components => ~lastCall'.sends[2].includeComponents]_vars

====
